---- MODULE Spec2Model ----
(***************************************************************************)
(* The reminder subsystem of Thursday Web (src/thursday-web/reminder.py    *)
(* and the poll loop and chat path of src/thursday-web/main.py).           *)
(*                                                                         *)
(* ReminderStore keeps one sqlite3 connection for the whole process.  A    *)
(* statement run on it changes the connection's view of the table at once  *)
(* (table, seq); commit() makes that view durable (disk, diskSeq).  These  *)
(* specifications share the state:                                         *)
(*   StoreSpec  one client calling the store methods one after another;    *)
(*   Spec       the event loop (poll loop, async routes) and one worker    *)
(*              thread, statement by statement, without faults;            *)
(*   FullSpec   Spec plus process crashes and store exceptions;            *)
(*   RetrySpec  Spec plus store exceptions (RetryFairSpec: with the        *)
(*              event loop's fairness);                                    *)
(*   StopSpec   Spec plus the server's shutdown                            *)
(*              (StopFairSpec: with the event loop's fairness).            *)
(* The functions around the store have specifications of their own, each   *)
(* starting from the inputs of one call:                                   *)
(*   ListAllSpec     list_all on a store filled up to its LIMIT;           *)
(*   NotifySpec      notifier.notify (NotifyFairSpec: with fairness);      *)
(*   SplitSpec       notifier._split_message, one loop iteration a step;   *)
(*   LongSpec        notifier.send_whatsapp_long;                          *)
(*   ParseSpec       parse_time_expression on time phrases;                *)
(*   DetectSpec      try_parse_user_reminder and the chat handler's        *)
(*                   reminder block on a user message;                     *)
(*   TagSpec         extract_reminder_tags and strip_reminder_tags;        *)
(*   ChatSpec        one chat request, from the user's message to the      *)
(*                   reply saved by generate();                            *)
(*   RefreshSpec     college.background_refresh and its threads.           *)
(***************************************************************************)
EXTENDS Integers, Sequences, FiniteSets, TLC

\* Bounds of the model.
MaxId == 2
MaxTime == 1
MaxFault == 1

\* LIMIT of list_all's query.
ListAllLimit == 50

\* conversation_id is nullable.
NULL == "NULL"

\* (message, conversation_id) pairs the callers pass to add_reminder.
AddInputs == {<<"m1", NULL>>, <<"m2", "c1">>}

\* ... and the pair the chat path passes in the running server.
ChatInputs == {<<"m2", "c1">>}

Times == 0..MaxTime
Ids == 1..(MaxId + 1)

VARIABLES
    table,      \* reminders table as the connection sees it (set of rows)
    seq,        \* sqlite_sequence entry of the table, as the connection sees it
    disk,       \* committed reminders table
    diskSeq,    \* committed sqlite_sequence entry
    now,        \* time.time()
    call,       \* StoreSpec: the last store call, [op, arg, ret], and pre, the
                \* table it ran on
    issued,     \* ids returned by add_reminder so far, oldest first
    fireCount,  \* StoreSpec: per id, how often its fired column went from 0 to 1
    loop,       \* where the event-loop thread is: "sleep" (the poll loop awaits
                \* its sleep, routes may run), "notify", "mark", "commit" (inside
                \* a poll cycle), "done" (cycle over), "add_commit", "del_commit"
                \* (a route between its statement and its commit), "boot",
                \* "cancelled" (the task's cancel() called, the task still at
                \* its sleep), "exited" (the task is done), "closed" (the
                \* store's connection is closed)
    due,        \* reminders of this cycle's get_due still to be processed
    loopRet,    \* result the route on the event loop is about to return
    thr,        \* the worker thread: "idle" or "commit" (INSERT run, commit not)
    thrRet,     \* Reminder the worker thread's add_reminder is about to return
    cycle,      \* this poll cycle: what get_due returned, the calls made, status
    notified,   \* per id, calls of send_reminder_fire_notification so far
    pend,       \* <<id, notified[id]>> of the committed reminders that were
                \* between get_due and mark_fired at the last crash
    faults,     \* process crashes and store exceptions so far
    ps,         \* the parse_time_expression call: the process's time zone, the
                \* phrase and what it was built from, result
    nt,         \* the notify() call in progress: configuration, normalised
                \* channel, adapter calls made so far, result
                \* ("True", "False", or NULL while there is none)
    wa,         \* the _split_message / send_whatsapp_long call in progress:
                \* text, limit, what is left to split, the chunks, the
                \* requests made, result
    tx,         \* the chat request's work on text: the try_parse_user_reminder
                \* call on the user's message (the message, what it was built
                \* from, the result, where the request is), or the tag
                \* functions' call on the model's reply; the reminders the
                \* request added, the 'set' notifications it sent, the tags
                \* still to process, the text streamed to the client and the
                \* text saved as the assistant's message
    rf          \* college.py: the _refreshing flag, who holds _refresh_lock,
                \* and where each call of background_refresh and the thread
                \* it started are

storeVars == <<table, seq, disk, diskSeq>>
procVars == <<loop, due, loopRet, thr, thrRet>>
histVars == <<cycle, notified, pend, faults>>
fnVars == <<nt, wa, ps, tx, rf>>
vars == <<table, seq, disk, diskSeq, now, call, issued, fireCount,
          loop, due, loopRet, thr, thrRet, cycle, notified, pend, faults, nt, wa, ps, tx, rf>>

----------------------------------------------------------------------------
\* Helpers over finite sets and sequences.

Max(S) == CHOOSE x \in S : \A y \in S : y <= x

Range(s) == {s[i] : i \in 1..Len(s)}

RECURSIVE Orderings(_)
Orderings(S) ==
    IF S = {} THEN {<<>>}
    ELSE UNION {{<<x>> \o s : s \in Orderings(S \ {x})} : x \in S}

RowIds(tbl) == {r.id : r \in tbl}

\* The rows of S in rowid order.
RECURSIVE ByRowid(_)
ByRowid(S) ==
    IF S = {} THEN <<>>
    ELSE LET r == CHOOSE x \in S : \A y \in S : x.id <= y.id
         IN <<r>> \o ByRowid(S \ {r})

----------------------------------------------------------------------------
\* The statements of ReminderStore, as functions of the table they run on.

\* INTEGER PRIMARY KEY AUTOINCREMENT: one more than the largest rowid the
\* table has ever held (sqlite_sequence), not than the largest it holds now.
NextIdNoAutoincrement(tbl, sq) == Max(RowIds(tbl) \cup {0}) + 1
NextId(tbl, sq) == Max(RowIds(tbl) \cup {sq}) + 1

\* INSERT INTO reminders (...) VALUES (?, ?, ?, 0, ?)
InsertRow(id, m, t, c, n) ==
    [id |-> id, message |-> m, trigger_at |-> t, created_at |-> n,
     fired |-> FALSE, conversation_id |-> c]

\* The Reminder add_reminder returns, built from its arguments and lastrowid.
AddResult(id, m, t, c, n) ==
    [id |-> id, message |-> m, trigger_at |-> t, created_at |-> n,
     fired |-> FALSE, conversation_id |-> c]

\* SELECT ... WHERE trigger_at <= ? AND fired = 0
DueRowsStrict(tbl, n) == {r \in tbl : r.trigger_at < n /\ ~r.fired}
DueRowsAnyTime(tbl, n) == {r \in tbl : ~r.fired}
DueRowsAnyFired(tbl, n) == {r \in tbl : r.trigger_at <= n}
DueRows(tbl, n) == {r \in tbl : r.trigger_at <= n /\ r.fired = FALSE}

\* get_due_reminders: the query has no ORDER BY; SQLite answers it from
\* idx_rem_fired (fired = 0), which yields the rows in rowid order.
GetDue(tbl, n) == ByRowid(DueRows(tbl, n))

\* UPDATE reminders SET fired = 1 WHERE id = ?
UpdateFiredNoRow(tbl, id) == tbl
UpdateFiredToggle(tbl, id) ==
    {IF r.id = id THEN [r EXCEPT !.fired = ~r.fired] ELSE r : r \in tbl}
UpdateFiredUpsert(tbl, id) ==
    IF id \in RowIds(tbl)
    THEN {IF r.id = id THEN [r EXCEPT !.fired = TRUE] ELSE r : r \in tbl}
    ELSE tbl \cup {[id |-> id, message |-> "", trigger_at |-> 0, created_at |-> 0,
                    fired |-> TRUE, conversation_id |-> NULL]}
UpdateFiredAll(tbl, id) == {[r EXCEPT !.fired = TRUE] : r \in tbl}
UpdateFired(tbl, id) ==
    {IF r.id = id THEN [r EXCEPT !.fired = TRUE] ELSE r : r \in tbl}

\* DELETE FROM reminders WHERE id = ?   (rowcount = rows removed)
DeleteRowsUpTo(tbl, id) == {r \in tbl : r.id > id}
DeleteRowsSoft(tbl, id) ==
    {IF r.id = id THEN [r EXCEPT !.fired = TRUE] ELSE r : r \in tbl}
DeleteRows(tbl, id) == {r \in tbl : r.id # id}
DeleteCountTable(tbl, id) == Cardinality(tbl)
DeleteCount(tbl, id) == Cardinality({r \in tbl : r.id = id})

\* The dict list_active builds from a row: no "fired" key.
ActiveDict(r) ==
    [id |-> r.id, message |-> r.message, trigger_at |-> r.trigger_at,
     created_at |-> r.created_at, conversation_id |-> r.conversation_id]

\* ORDER BY trigger_at ASC / DESC; rows with equal keys come in any order.
Ascending(s) == \A i, j \in 1..Len(s) : i < j => s[i].trigger_at <= s[j].trigger_at
Descending(s) == \A i, j \in 1..Len(s) : i < j => s[i].trigger_at >= s[j].trigger_at

\* SELECT ... WHERE fired = 0 ORDER BY trigger_at ASC
ListActiveDescending(tbl) ==
    {s \in Orderings({ActiveDict(r) : r \in {q \in tbl : ~q.fired}}) : Descending(s)}
ListActive(tbl) ==
    {s \in Orderings({ActiveDict(r) : r \in {q \in tbl : q.fired = FALSE}}) : Ascending(s)}

\* ORDER BY trigger_at DESC: the orders in which the rows of S can come, the
\* next row being any of those with the largest trigger_at left.
RECURSIVE OrderedDesc(_)
OrderedDesc(S) ==
    IF S = {} THEN {<<>>}
    ELSE LET top == {r \in S : \A q \in S : q.trigger_at <= r.trigger_at}
         IN  UNION {{<<r>> \o s : s \in OrderedDesc(S \ {r})} : r \in top}

\* SELECT ... ORDER BY trigger_at DESC LIMIT 50
ListAllNoLimit(tbl) == OrderedDesc(tbl)
ListAll(tbl) ==
    {SubSeq(s, 1, IF Len(s) < ListAllLimit THEN Len(s) ELSE ListAllLimit) :
        s \in OrderedDesc(tbl)}

----------------------------------------------------------------------------
\* StoreSpec: the store's methods called one at a time.  Every method runs
\* its statement and, when it writes, commits before it returns.

\* What a call in progress is about to return: nothing yet, a Reminder, a bool.
Nothing == [kind |-> "none", reminder |-> {}, value |-> FALSE]
ReturnsReminder(r) == [kind |-> "Reminder", reminder |-> {r}, value |-> FALSE]
ReturnsBool(b) == [kind |-> "bool", reminder |-> {}, value |-> b]
ReminderOf(about) == CHOOSE r \in about.reminder : TRUE

NoCall == [op |-> "none", arg |-> <<>>, ret |-> <<>>, pre |-> {}]

NoCycle == [due |-> <<>>, log |-> <<>>, sendFailed |-> FALSE, status |-> "none"]

\* fireCount after a statement took the table from old to new.
Fired(tbl, i) == \E r \in tbl : r.id = i /\ r.fired
Unfired(tbl, i) == \E r \in tbl : r.id = i /\ ~r.fired
CountFlips(old, new) ==
    [i \in Ids |-> fireCount[i] + (IF Unfired(old, i) /\ Fired(new, i) THEN 1 ELSE 0)]

\* No notifier call in progress.
NoNotify == [cfg |-> [discord |-> FALSE, whatsapp |-> FALSE], pc |-> "idle",
             channel |-> <<>>, log |-> <<>>, ret |-> NULL]

\* No _split_message or send_whatsapp_long call in progress.
NoWa == [pc |-> "idle", cfg |-> FALSE, text |-> <<>>, limit |-> 0,
         remaining |-> <<>>, chunks |-> <<>>, client |-> "none", log |-> <<>>,
         all_ok |-> TRUE, ret |-> NULL]

\* No parse_time_expression call made.
NoClock == [family |-> "none", h |-> 0, withMinute |-> FALSE, m |-> 0,
            ampm |-> <<>>]
NoParse == [pc |-> "idle", zone |-> "fixed", present |-> {}, amount |-> <<>>,
            clock |-> NoClock, expr |-> <<>>,
            ret |-> [kind |-> "pending", value |-> 0, family |-> "none",
                     hour |-> 0, minute |-> 0]]

\* What try_parse_user_reminder does: return a pair, return None, or raise
\* what parse_time_expression raised.  index is the pattern's place in the list.
NoPair == [kind |-> "None", time |-> <<>>, message |-> <<>>, index |-> 0]

\* No text function called.
NoText == [pc |-> "idle", text |-> <<>>, lead |-> <<>>, order |-> "none",
           time |-> <<>>, conn |-> <<>>, task |-> <<>>, ret |-> NoPair,
           pieces |-> <<>>, tagsIn |-> <<>>, tags |-> <<>>, clean |-> <<>>,
           again |-> <<>>, added |-> <<>>, sets |-> <<>>, todo |-> <<>>,
           reply |-> <<>>, shown |-> <<>>, saved |-> <<>>]

\* No call of background_refresh made.
MaxCalls == 3
Calls == 1..MaxCalls
NoRefresh == [refreshing |-> FALSE, lock |-> 0, pc |-> [c \in Calls |-> "idle"]]

FnIdle == nt = NoNotify /\ wa = NoWa /\ ps = NoParse /\ tx = NoText /\ rf = NoRefresh

Init ==
    /\ table = {}
    /\ seq = 0
    /\ disk = {}
    /\ diskSeq = 0
    /\ now = 0
    /\ call = NoCall
    /\ issued = <<>>
    /\ fireCount = [i \in Ids |-> 0]
    /\ loop = "sleep"
    /\ due = <<>>
    /\ loopRet = Nothing
    /\ thr = "idle"
    /\ thrRet = Nothing
    /\ cycle = NoCycle
    /\ notified = [i \in Ids |-> 0]
    /\ pend = {}
    /\ faults = 0
    /\ FnIdle

Tick ==
    /\ now < MaxTime
    /\ now' = now + 1
    /\ UNCHANGED <<storeVars, call, issued, fireCount, procVars, histVars, fnVars>>

add_reminder(m, t, c) ==
    LET id == NextId(table, seq) IN
    /\ id <= MaxId
    /\ table' = table \cup {InsertRow(id, m, t, c, now)}
    /\ seq' = id
    /\ disk' = table'
    /\ diskSeq' = seq'
    /\ call' = [op |-> "add", arg |-> <<m, t, c>>, ret |-> AddResult(id, m, t, c, now),
                pre |-> table]
    /\ issued' = Append(issued, id)
    /\ fireCount' = CountFlips(table, table')
    /\ UNCHANGED <<now, procVars, histVars, fnVars>>

get_due_reminders ==
    /\ call' = [op |-> "get_due", arg |-> now, ret |-> GetDue(table, now),
                pre |-> table]
    /\ UNCHANGED <<storeVars, now, issued, fireCount, procVars, histVars, fnVars>>

mark_fired(id) ==
    /\ table' = UpdateFired(table, id)
    /\ disk' = table'
    /\ diskSeq' = seq
    /\ call' = [op |-> "mark_fired", arg |-> id, ret |-> "None",
                pre |-> table]
    /\ fireCount' = CountFlips(table, table')
    /\ UNCHANGED <<seq, now, issued, procVars, histVars, fnVars>>

list_active ==
    /\ \E s \in ListActive(table) :
          call' = [op |-> "list_active", arg |-> <<>>, ret |-> s,
                pre |-> table]
    /\ UNCHANGED <<storeVars, now, issued, fireCount, procVars, histVars, fnVars>>

list_all ==
    /\ \E s \in ListAll(table) :
          call' = [op |-> "list_all", arg |-> <<>>, ret |-> s,
                pre |-> table]
    /\ UNCHANGED <<storeVars, now, issued, fireCount, procVars, histVars, fnVars>>

delete_reminder(id) ==
    /\ table' = DeleteRows(table, id)
    /\ disk' = table'
    /\ diskSeq' = seq
    /\ call' = [op |-> "delete", arg |-> id, ret |-> (DeleteCount(table, id) > 0),
                pre |-> table]
    /\ fireCount' = CountFlips(table, table')
    /\ UNCHANGED <<seq, now, issued, procVars, histVars, fnVars>>

StoreAdd == \E in \in AddInputs, t \in Times : add_reminder(in[1], t, in[2])
StoreGetDue == get_due_reminders
StoreMarkFired == \E id \in Ids : mark_fired(id)
StoreListActive == list_active
StoreListAll == list_all
StoreDelete == \E id \in Ids : delete_reminder(id)

StoreNext ==
    \/ Tick
    \/ StoreAdd
    \/ StoreGetDue
    \/ StoreMarkFired
    \/ StoreListActive
    \/ StoreListAll
    \/ StoreDelete

StoreSpec == Init /\ [][StoreNext]_vars

----------------------------------------------------------------------------
\* ListAllSpec: list_all on a store that holds about as many reminders as the
\* query's LIMIT, some of them fired.

\* How far the number of stored reminders goes beyond the LIMIT.
MaxOver == 2

\* Multipliers that spread the trigger times over the ids.
Spreads == {1, 7, 11, 23, 58}

\* n reminders with ids 1..n: trigger times all different (tie = FALSE) or the
\* same for ids 1 to 3 (tie = TRUE); every stride-th id already fired.
BigTable(n, k, stride, tie) ==
    {[id |-> i, message |-> "m1",
      trigger_at |-> ((IF tie /\ i <= 3 THEN 3 ELSE i) * k) % 59,
      created_at |-> 0, fired |-> (i % stride = 0),
      conversation_id |-> NULL] : i \in 1..n}

ListAllInit ==
    /\ \E n \in (ListAllLimit - 1)..(ListAllLimit + MaxOver), k \in Spreads,
          stride \in 1..3, tie \in BOOLEAN :
          /\ table = BigTable(n, k, stride, tie)
          /\ seq = n
    /\ disk = table
    /\ diskSeq = seq
    /\ now = 0
    /\ call = NoCall
    /\ issued = <<>>
    /\ fireCount = [i \in Ids |-> 0]
    /\ loop = "sleep"
    /\ due = <<>>
    /\ loopRet = Nothing
    /\ thr = "idle"
    /\ thrRet = Nothing
    /\ cycle = NoCycle
    /\ notified = [i \in Ids |-> 0]
    /\ pend = {}
    /\ faults = 0
    /\ FnIdle

ListAllNext == StoreListAll

ListAllSpec == ListAllInit /\ [][ListAllNext]_vars

----------------------------------------------------------------------------
\* Spec: the running server.  The poll loop and the async routes share the
\* event-loop thread: a route runs only while the poll loop awaits its sleep,
\* and a poll cycle (get_due, then send and mark_fired per reminder) runs with
\* no await in it.  _process_reminders (inside the streaming generator) and
\* _process_whatsapp_message run on a worker thread and interleave with the
\* event loop between any two statements on the shared connection.

\* What parse_time_expression can return at time n: a time after n.
ParseResults(n) == (n + 1)..(MaxTime + 1)

Commit ==
    /\ disk' = table
    /\ diskSeq' = seq

\* _reminder_check_loop: the sleep is over, due = reminders.get_due_reminders()
SchedPollOne ==
    /\ loop = "sleep"
    /\ LET all == GetDue(table, now)
           rows == IF all = <<>> THEN <<>> ELSE <<Head(all)>> IN
          /\ due' = rows
          /\ cycle' = [due |-> rows, log |-> <<>>, sendFailed |-> FALSE,
                       status |-> IF rows = <<>> THEN "ok" ELSE "running"]
          /\ loop' = IF rows = <<>> THEN "done" ELSE "notify"
    /\ UNCHANGED <<storeVars, now, call, issued, fireCount, loopRet, thr, thrRet,
                   notified, pend, faults, fnVars>>
SchedPoll ==
    /\ loop = "sleep"
    /\ LET rows == GetDue(table, now) IN
          /\ due' = rows
          /\ cycle' = [due |-> rows, log |-> <<>>, sendFailed |-> FALSE,
                       status |-> IF rows = <<>> THEN "ok" ELSE "running"]
          /\ loop' = IF rows = <<>> THEN "done" ELSE "notify"
    /\ UNCHANGED <<storeVars, now, call, issued, fireCount, loopRet, thr, thrRet,
                   notified, pend, faults, fnVars>>

\* send_reminder_fire_notification(r.message); its result is dropped
SchedNotifyGated ==
    /\ loop = "notify"
    /\ \E ok \in BOOLEAN :
          /\ cycle' = [cycle EXCEPT
                          !.log = Append(@, <<"notify", Head(due).id>>),
                          !.sendFailed = @ \/ ~ok,
                          !.status = IF ~ok /\ Tail(due) = <<>> THEN "ok" ELSE @]
          /\ due' = IF ok THEN due ELSE Tail(due)
          /\ loop' = IF ok THEN "mark"
                     ELSE IF Tail(due) = <<>> THEN "done" ELSE "notify"
    /\ notified' = [notified EXCEPT ![Head(due).id] = @ + 1]
    /\ UNCHANGED <<storeVars, now, call, issued, fireCount, loopRet, thr, thrRet,
                   pend, faults, fnVars>>
SchedNotifySkipped ==
    /\ loop = "notify"
    /\ loop' = "mark"
    /\ UNCHANGED <<storeVars, now, call, issued, fireCount, due, loopRet, thr, thrRet,
                   histVars, fnVars>>
SchedNotify ==
    /\ loop = "notify"
    /\ \E ok \in BOOLEAN :
          cycle' = [cycle EXCEPT !.log = Append(@, <<"notify", Head(due).id>>),
                                 !.sendFailed = @ \/ ~ok]
    /\ notified' = [notified EXCEPT ![Head(due).id] = @ + 1]
    /\ loop' = "mark"
    /\ UNCHANGED <<storeVars, now, call, issued, fireCount, due, loopRet, thr, thrRet,
                   pend, faults, fnVars>>

\* reminders.mark_fired(r.id): the UPDATE
SchedMark ==
    /\ loop = "mark"
    /\ table' = UpdateFired(table, Head(due).id)
    /\ UNCHANGED fireCount
    /\ cycle' = [cycle EXCEPT !.log = Append(@, <<"mark", Head(due).id>>)]
    /\ loop' = "commit"
    /\ UNCHANGED <<seq, disk, diskSeq, now, call, issued, due, loopRet, thr, thrRet,
                   notified, pend, faults, fnVars>>

\* reminders.mark_fired(r.id): the commit, then the next reminder of the cycle
SchedMarkCommit ==
    /\ loop = "commit"
    /\ Commit
    /\ due' = Tail(due)
    /\ loop' = IF Tail(due) = <<>> THEN "done" ELSE "notify"
    /\ cycle' = [cycle EXCEPT !.status = IF Tail(due) = <<>> THEN "ok" ELSE @]
    /\ UNCHANGED <<table, seq, now, call, issued, fireCount, loopRet, thr, thrRet,
                   notified, pend, faults, fnVars>>

\* back to the top of the while loop: await asyncio.sleep(...)
SchedSleep ==
    /\ loop = "done"
    /\ loop' = "sleep"
    /\ cycle' = NoCycle
    /\ pend' = IF cycle.status = "ok" THEN {} ELSE pend
    /\ UNCHANGED <<storeVars, now, call, issued, fireCount, due, loopRet, thr, thrRet,
                   notified, faults, fnVars>>

\* _thursday_stream on the event loop: reminders.add_reminder(...), the INSERT
ChatAdd ==
    /\ loop = "sleep"
    /\ \E in \in ChatInputs, t \in ParseResults(now) :
          LET id == NextId(table, seq) IN
          /\ id <= MaxId
          /\ table' = table \cup {InsertRow(id, in[1], t, in[2], now)}
          /\ seq' = id
          /\ loopRet' = ReturnsReminder(AddResult(id, in[1], t, in[2], now))
    /\ loop' = "add_commit"
    /\ UNCHANGED <<disk, diskSeq, now, call, issued, fireCount, due, thr, thrRet, histVars, fnVars>>

\* ... its commit and return
ChatAddCommit ==
    /\ loop = "add_commit"
    /\ Commit
    /\ issued' = Append(issued, ReminderOf(loopRet).id)
    /\ loop' = "sleep"
    /\ loopRet' = Nothing
    /\ UNCHANGED <<table, seq, now, call, fireCount, due, thr, thrRet, histVars, fnVars>>

\* _process_reminders / _process_whatsapp_message on the worker thread:
\* reminders.add_reminder(...), the INSERT
ThreadAdd ==
    /\ thr = "idle"
    /\ loop \notin {"boot", "closed"}
    /\ \E in \in ChatInputs, t \in ParseResults(now) :
          LET id == NextId(table, seq) IN
          /\ id <= MaxId
          /\ table' = table \cup {InsertRow(id, in[1], t, in[2], now)}
          /\ seq' = id
          /\ thrRet' = ReturnsReminder(AddResult(id, in[1], t, in[2], now))
    /\ thr' = "commit"
    /\ UNCHANGED <<disk, diskSeq, now, call, issued, fireCount, loop, due, loopRet, histVars, fnVars>>

\* ... its commit and return
ThreadAddCommit ==
    /\ thr = "commit"
    /\ loop # "closed"
    /\ Commit
    /\ issued' = Append(issued, ReminderOf(thrRet).id)
    /\ thr' = "idle"
    /\ thrRet' = Nothing
    /\ UNCHANGED <<table, seq, now, call, fireCount, loop, due, loopRet, histVars, fnVars>>

\* DELETE /v1/reminders/{id}: reminders.delete_reminder(id), the DELETE
RouteDelete ==
    /\ loop = "sleep"
    /\ \E id \in Ids :
          /\ table' = DeleteRows(table, id)
          /\ loopRet' = ReturnsBool(DeleteCount(table, id) > 0)
    /\ UNCHANGED fireCount
    /\ loop' = "del_commit"
    /\ UNCHANGED <<seq, disk, diskSeq, now, call, issued, due, thr, thrRet, histVars, fnVars>>

\* ... its commit and return
RouteDeleteCommit ==
    /\ loop = "del_commit"
    /\ Commit
    /\ loop' = "sleep"
    /\ loopRet' = Nothing
    /\ UNCHANGED <<table, seq, now, call, issued, fireCount, due, thr, thrRet, histVars, fnVars>>

\* GET /v1/reminders: the list goes to the client, nothing is kept
RouteListActive ==
    /\ loop = "sleep"
    /\ ListActive(table) # {}
    /\ UNCHANGED vars

\* GET /v1/reminders/all: the list goes to the client, nothing is kept
RouteListAll ==
    /\ loop = "sleep"
    /\ ListAll(table) # {}
    /\ UNCHANGED vars

Next ==
    \/ Tick
    \/ SchedPoll
    \/ SchedNotify
    \/ SchedMark
    \/ SchedMarkCommit
    \/ SchedSleep
    \/ ChatAdd
    \/ ChatAddCommit
    \/ ThreadAdd
    \/ ThreadAddCommit
    \/ RouteDelete
    \/ RouteDeleteCommit
    \/ RouteListActive
    \/ RouteListAll

Spec == Init /\ [][Next]_vars

----------------------------------------------------------------------------
\* FullSpec: Spec plus the faults.  A crash ends every thread and drops what
\* the connection had not committed; the server is then started again.  A
\* store statement of the poll loop may raise (sqlite3.OperationalError: the
\* database file is shared with MemoryStore's connection); the loop's
\* "except Exception" logs it and the cycle is over.

\* The reminders between get_due and their mark_fired call.
Firing ==
    CASE loop \in {"notify", "mark"} -> {r.id : r \in Range(due)}
      [] loop = "commit" -> {r.id : r \in Range(Tail(due))}
      [] OTHER -> {}

Crash ==
    /\ faults < MaxFault
    /\ loop # "boot"
    /\ faults' = faults + 1
    /\ table' = disk
    /\ seq' = diskSeq
    /\ UNCHANGED fireCount
    /\ pend' = {<<i, notified[i]>> : i \in Firing \cap RowIds(disk)}
    /\ loop' = "boot"
    /\ due' = <<>>
    /\ loopRet' = Nothing
    /\ thr' = "idle"
    /\ thrRet' = Nothing
    /\ cycle' = NoCycle
    /\ UNCHANGED <<disk, diskSeq, now, call, issued, notified, fnVars>>

\* lifespan: ReminderStore(DB_FILE), asyncio.create_task(_reminder_check_loop())
Boot ==
    /\ loop = "boot"
    /\ loop' = "sleep"
    /\ UNCHANGED <<storeVars, now, call, issued, fireCount, due, loopRet, thr, thrRet,
                   histVars, fnVars>>

\* get_due_reminders raises
SchedPollRaises ==
    /\ loop = "sleep"
    /\ faults < MaxFault
    /\ faults' = faults + 1
    /\ cycle' = [due |-> <<>>, log |-> <<>>, sendFailed |-> FALSE, status |-> "error"]
    /\ loop' = "done"
    /\ UNCHANGED <<storeVars, now, call, issued, fireCount, due, loopRet, thr, thrRet,
                   notified, pend, fnVars>>

\* mark_fired's UPDATE raises and nothing catches it: the task is over
SchedMarkRaisesFatal ==
    /\ loop = "mark"
    /\ faults < MaxFault
    /\ faults' = faults + 1
    /\ cycle' = [cycle EXCEPT !.log = Append(@, <<"mark", Head(due).id>>),
                              !.status = "error"]
    /\ due' = <<>>
    /\ loop' = "exited"
    /\ UNCHANGED <<storeVars, now, call, issued, fireCount, loopRet, thr, thrRet,
                   notified, pend, fnVars>>

\* mark_fired's UPDATE raises
SchedMarkRaises ==
    /\ loop = "mark"
    /\ faults < MaxFault
    /\ faults' = faults + 1
    /\ cycle' = [cycle EXCEPT !.log = Append(@, <<"mark", Head(due).id>>),
                              !.status = "error"]
    /\ due' = <<>>
    /\ loop' = "done"
    /\ UNCHANGED <<storeVars, now, call, issued, fireCount, loopRet, thr, thrRet,
                   notified, pend, fnVars>>

FullNext ==
    \/ Next
    \/ Crash
    \/ Boot
    \/ SchedPollRaises
    \/ SchedMarkRaises

FullSpec == Init /\ [][FullNext]_vars

\* The event-loop thread keeps running: what it has begun (a poll cycle, a
\* route) it carries on with.  It runs its ready
\* callbacks in turn and the sleep's timer runs out, so the poll task gets its
\* turn however many requests arrive.
PollStep == SchedPoll \/ SchedPollRaises
ThreadStep ==
    \/ SchedNotify
    \/ SchedMark
    \/ SchedMarkRaises
    \/ SchedMarkCommit
    \/ SchedSleep
    \/ ChatAddCommit
    \/ RouteDeleteCommit

\* RetrySpec: Spec plus the store exceptions, without crashes.
RetryNext ==
    \/ Next
    \/ SchedPollRaises
    \/ SchedMarkRaises

RetrySpec == Init /\ [][RetryNext]_vars

RetryFairSpec == RetrySpec /\ SF_vars(PollStep) /\ WF_vars(ThreadStep)

----------------------------------------------------------------------------
\* StopSpec: Spec plus the shutdown half of lifespan.
\* lifespan runs on the event loop, so its cancel() runs while the poll task is
\* suspended, and the only place the task suspends is its sleep; the
\* CancelledError is thrown into the task there when the event loop next runs
\* it, in place of waking it up.

\* A cancellation that could reach the task at any statement.
CancelAnywhere ==
    /\ loop \in {"sleep", "notify", "mark", "commit", "done"}
    /\ loop' = "cancelled"
    /\ UNCHANGED <<storeVars, now, call, issued, fireCount, due, loopRet, thr, thrRet,
                   histVars, fnVars>>

\* lifespan after yield: _reminder_task.cancel()
Cancel ==
    /\ loop = "sleep"
    /\ loop' = "cancelled"
    /\ UNCHANGED <<storeVars, now, call, issued, fireCount, due, loopRet, thr, thrRet,
                   histVars, fnVars>>

\* _reminder_check_loop: except asyncio.CancelledError: break
LoopExit ==
    /\ loop = "cancelled"
    /\ loop' = "exited"
    /\ UNCHANGED <<storeVars, now, call, issued, fireCount, due, loopRet, thr, thrRet,
                   histVars, fnVars>>

\* lifespan: await _reminder_task has returned; reminders.close().  Closing
\* the connection rolls back what it had not committed.
StoreClose ==
    /\ loop = "exited"
    /\ loop' = "closed"
    /\ table' = disk
    /\ seq' = diskSeq
    /\ UNCHANGED <<disk, diskSeq, now, call, issued, fireCount, due, loopRet, thr, thrRet,
                   histVars, fnVars>>

\* The worker thread's commit on the closed connection raises
\* sqlite3.ProgrammingError; add_reminder returns nothing.
ThreadAddCommitClosed ==
    /\ thr = "commit"
    /\ loop = "closed"
    /\ thr' = "idle"
    /\ thrRet' = Nothing
    /\ UNCHANGED <<storeVars, now, call, issued, fireCount, loop, due, loopRet,
                   histVars, fnVars>>

StopNext ==
    \/ Next
    \/ Cancel
    \/ LoopExit
    \/ StoreClose
    \/ ThreadAddCommitClosed

StopSpec == Init /\ [][StopNext]_vars

\* The event loop keeps running its ready tasks: a cancelled task is run.
StopFairSpec == StopSpec /\ WF_loop(LoopExit)

----------------------------------------------------------------------------
\* NotifySpec: calls of notifier.notify, one at a time.  Strings are sequences
\* of characters.

UpperCase == <<"A", "B", "C", "D", "E", "F", "G", "H", "I", "J", "K", "L", "M",
               "N", "O", "P", "Q", "R", "S", "T", "U", "V", "W", "X", "Y", "Z">>
LowerCase == <<"a", "b", "c", "d", "e", "f", "g", "h", "i", "j", "k", "l", "m",
               "n", "o", "p", "q", "r", "s", "t", "u", "v", "w", "x", "y", "z">>
WhiteSpace == {" ", "\n", "\t"}

\* str.lower()
LowerChar(c) ==
    IF \E i \in 1..Len(UpperCase) : UpperCase[i] = c
    THEN LowerCase[CHOOSE i \in 1..Len(UpperCase) : UpperCase[i] = c]
    ELSE c
Lower(str) == [i \in 1..Len(str) |-> LowerChar(str[i])]

\* str.strip()
RECURSIVE LStrip(_)
LStrip(str) ==
    IF str # <<>> /\ Head(str) \in WhiteSpace THEN LStrip(Tail(str)) ELSE str
RECURSIVE RStrip(_)
RStrip(str) ==
    IF str # <<>> /\ str[Len(str)] \in WhiteSpace
    THEN RStrip(SubSeq(str, 1, Len(str) - 1)) ELSE str
Strip(str) == RStrip(LStrip(str))

\* The channel names notify compares with.
ALL == <<"a", "l", "l">>
WHATSAPP == <<"w", "h", "a", "t", "s", "a", "p", "p">>
DISCORD == <<"d", "i", "s", "c", "o", "r", "d">>

\* Channel arguments the callers pass.
Channels ==
    {DISCORD, WHATSAPP, ALL,
     <<"A", "l", "l">>, <<" ", "a", "l", "l", "\n">>, <<"a", " ", "l", "l">>,
     <<"W", "h", "a", "t", "s", "A", "p", "p", " ">>,
     <<"D", "I", "S", "C", "O", "R", "D">>, <<"s", "m", "s">>, <<>>}

\* What one call of an adapter can meet: the channel is not configured, the
\* request is answered with a success status, with another status, or raises.
DiscordOutcomes(cfg) ==
    IF cfg.discord THEN {"ok", "status", "exception"} ELSE {"unconfigured"}
WhatsappOutcomes(cfg) ==
    IF cfg.whatsapp THEN {"ok", "exception"} ELSE {"unconfigured"}

\* send_discord / send_whatsapp under outcome o: the value returned, or the
\* exception that leaves the adapter.
send_discordNoExcept(o) == [raised |-> o = "exception", value |-> o = "ok"]
send_discord(o) == [raised |-> FALSE, value |-> o = "ok"]
send_whatsapp(o) == [raised |-> FALSE, value |-> o = "ok"]

\* A Python bool as notify hands it back.
Bool(b) == IF b THEN "True" ELSE "False"

\* The adapter notify calls first and second for a normalised channel.
FirstAdapter(ch) == IF ch = WHATSAPP THEN "whatsapp" ELSE "discord"
SecondAdapter(ch) == IF ch = WHATSAPP THEN "discord" ELSE "whatsapp"
Outcomes(a, cfg) ==
    IF a = "discord" THEN DiscordOutcomes(cfg) ELSE WhatsappOutcomes(cfg)
Send(a, o) == IF a = "discord" THEN send_discord(o) ELSE send_whatsapp(o)

NotifyInit ==
    /\ table = {}
    /\ seq = 0
    /\ disk = {}
    /\ diskSeq = 0
    /\ now = 0
    /\ call = NoCall
    /\ issued = <<>>
    /\ fireCount = [i \in Ids |-> 0]
    /\ loop = "sleep"
    /\ due = <<>>
    /\ loopRet = Nothing
    /\ thr = "idle"
    /\ thrRet = Nothing
    /\ cycle = NoCycle
    /\ notified = [i \in Ids |-> 0]
    /\ pend = {}
    /\ faults = 0
    /\ \E d, w \in BOOLEAN :
          nt = [NoNotify EXCEPT !.cfg = [discord |-> d, whatsapp |-> w]]
    /\ wa = NoWa
    /\ ps = NoParse
    /\ tx = NoText
    /\ rf = NoRefresh

NotFn == <<storeVars, now, call, issued, fireCount, procVars, histVars>>
NotNt == <<NotFn, wa, ps, tx, rf>>
NotWa == <<NotFn, nt, ps, tx, rf>>
NotPs == <<NotFn, nt, wa, tx, rf>>

\* notify(message, channel): channel = channel.lower().strip()
NotifyCall ==
    /\ nt.pc = "idle"
    /\ \E ch \in Channels :
          nt' = [nt EXCEPT !.pc = "first", !.channel = Strip(Lower(ch)),
                           !.log = <<>>, !.ret = NULL]
    /\ UNCHANGED NotNt

\* The first adapter call of the three branches: "all" goes on to the second
\* whatever the first returned, the others return True when it did.
NotifyFirstNoFallback ==
    /\ nt.pc = "first"
    /\ LET a == FirstAdapter(nt.channel) IN
       \E o \in Outcomes(a, nt.cfg) :
          LET r == Send(a, o) IN
          nt' = [nt EXCEPT
                    !.log = Append(@, <<a, o>>),
                    !.pc = IF r.raised THEN "raised"
                           ELSE IF nt.channel = ALL THEN "second" ELSE "returned",
                    !.ret = IF r.raised \/ nt.channel = ALL THEN NULL
                            ELSE Bool(r.value)]
    /\ UNCHANGED NotNt
NotifyFirst ==
    /\ nt.pc = "first"
    /\ LET a == FirstAdapter(nt.channel) IN
       \E o \in Outcomes(a, nt.cfg) :
          LET r == Send(a, o) IN
          nt' = [nt EXCEPT
                    !.log = Append(@, <<a, o>>),
                    !.pc = IF r.raised THEN "raised"
                           ELSE IF nt.channel = ALL \/ ~r.value THEN "second"
                           ELSE "returned",
                    !.ret = IF r.raised \/ nt.channel = ALL \/ ~r.value
                            THEN NULL ELSE Bool(TRUE)]
    /\ UNCHANGED NotNt

\* The second adapter call: "all" returns d or w, the others what the fallback
\* returned.
NotifySecondOnly ==
    /\ nt.pc = "second"
    /\ LET a == SecondAdapter(nt.channel) IN
       \E o \in Outcomes(a, nt.cfg) :
          LET r == Send(a, o) IN
          nt' = [nt EXCEPT
                    !.log = Append(@, <<a, o>>),
                    !.pc = IF r.raised THEN "raised" ELSE "returned",
                    !.ret = IF r.raised THEN NULL ELSE Bool(r.value)]
    /\ UNCHANGED NotNt
NotifySecond ==
    /\ nt.pc = "second"
    /\ LET a == SecondAdapter(nt.channel) IN
       \E o \in Outcomes(a, nt.cfg) :
          LET r == Send(a, o) IN
          nt' = [nt EXCEPT
                    !.log = Append(@, <<a, o>>),
                    !.pc = IF r.raised THEN "raised" ELSE "returned",
                    !.ret = IF r.raised THEN NULL
                            ELSE IF nt.channel = ALL
                                 THEN Bool((nt.log[1][2] = "ok") \/ r.value)
                                 ELSE Bool(r.value)]
    /\ UNCHANGED NotNt

\* The caller has the result; the next call can start.
NotifyReturn ==
    /\ nt.pc = "returned"
    /\ nt' = [nt EXCEPT !.pc = "idle"]
    /\ UNCHANGED NotNt

NotifyNext == NotifyCall \/ NotifyFirst \/ NotifySecond \/ NotifyReturn

NotifySpec == NotifyInit /\ [][NotifyNext]_vars

\* A call that was started runs on: notify has no loop and waits for nothing
\* but the two requests, which return or raise.
NotifyFairSpec == NotifySpec /\ WF_vars(NotifyNext)

----------------------------------------------------------------------------
\* SplitSpec: _split_message(text, limit) on every short text, one iteration
\* of its while loop per step.

\* Longest text, largest limit.
MaxLen == 5
MaxLimit == 3

\* The loop appends one chunk per iteration; the model follows it this far.
MaxChunks == MaxLen + 2

SplitChars == {"a", " ", "\n"}

RECURSIVE Strings(_)
Strings(n) ==
    IF n = 0 THEN {<<>>}
    ELSE Strings(n - 1)
         \cup {Append(x, c) : x \in {y \in Strings(n - 1) : Len(y) = n - 1},
                              c \in SplitChars}

\* str.rfind(ch, 0, end): the index, counted from 0, of the last ch among the
\* first end characters, or -1.
RFind(str, ch, end) ==
    LET P == {i \in 1..(IF end < Len(str) THEN end ELSE Len(str)) : str[i] = ch}
    IN  IF P = {} THEN -1 ELSE Max(P) - 1

\* str.lstrip("\n")
RECURSIVE LStripNewlines(_)
LStripNewlines(str) ==
    IF str # <<>> /\ Head(str) = "\n" THEN LStripNewlines(Tail(str)) ELSE str

\* idx of one iteration: last newline within the limit, else last space, else
\* the limit.
CutIndexHard(rem, limit) == limit
CutIndex(rem, limit) ==
    IF RFind(rem, "\n", limit) # -1 THEN RFind(rem, "\n", limit)
    ELSE IF RFind(rem, " ", limit) # -1 THEN RFind(rem, " ", limit)
    ELSE limit

\* str[:idx] and str[idx:]
Before(str, idx) == SubSeq(str, 1, idx)
From(str, idx) == SubSeq(str, idx + 1, Len(str))

SplitInit ==
    /\ table = {}
    /\ seq = 0
    /\ disk = {}
    /\ diskSeq = 0
    /\ now = 0
    /\ call = NoCall
    /\ issued = <<>>
    /\ fireCount = [i \in Ids |-> 0]
    /\ loop = "sleep"
    /\ due = <<>>
    /\ loopRet = Nothing
    /\ thr = "idle"
    /\ thrRet = Nothing
    /\ cycle = NoCycle
    /\ notified = [i \in Ids |-> 0]
    /\ pend = {}
    /\ faults = 0
    /\ nt = NoNotify
    /\ ps = NoParse
    /\ tx = NoText
    /\ rf = NoRefresh
    /\ \E text \in Strings(MaxLen), limit \in 1..MaxLimit :
          wa = [NoWa EXCEPT !.pc = "call", !.text = text, !.limit = limit]

\* if len(text) <= limit: return [text]; else chunks = [], remaining = text
SplitCall ==
    /\ wa.pc = "call"
    /\ wa' = IF Len(wa.text) <= wa.limit
             THEN [wa EXCEPT !.pc = "done", !.chunks = <<wa.text>>]
             ELSE [wa EXCEPT !.pc = "loop", !.chunks = <<>>, !.remaining = wa.text]
    /\ UNCHANGED NotWa

\* One iteration of `while remaining:` (or its exit).
SplitLoop ==
    /\ wa.pc = "loop"
    /\ Len(wa.chunks) < MaxChunks
    /\ wa' = IF wa.remaining = <<>>
             THEN [wa EXCEPT !.pc = "done"]
             ELSE IF Len(wa.remaining) <= wa.limit
             THEN [wa EXCEPT !.pc = "done", !.chunks = Append(@, wa.remaining),
                             !.remaining = <<>>]
             ELSE LET idx == CutIndex(wa.remaining, wa.limit) IN
                  [wa EXCEPT !.chunks = Append(@, Before(wa.remaining, idx)),
                             !.remaining = LStripNewlines(From(wa.remaining, idx))]
    /\ UNCHANGED NotWa

SplitNext == SplitCall \/ SplitLoop

SplitSpec == SplitInit /\ [][SplitNext]_vars

----------------------------------------------------------------------------
\* LongSpec: calls of send_whatsapp_long, one at a time, on messages around
\* one, two and three times the part limit.

\* limit of the _split_message call in send_whatsapp_long.
WhatsappLimit == 1500

\* A message of n characters: newlines at the positions nl, spaces at the
\* positions sp (counted from 1), letters elsewhere.
LongText(n, nl, sp) ==
    [i \in 1..n |-> IF i \in nl THEN "\n"
                    ELSE IF i \in sp THEN " "
                    ELSE LowerCase[(i % Len(LowerCase)) + 1]]

LongTexts ==
    {LongText(n, nl, sp) :
        n \in {1, WhatsappLimit, WhatsappLimit + 1, 2 * WhatsappLimit + 1},
        nl \in {{}, {WhatsappLimit - 9}, {WhatsappLimit + 1, WhatsappLimit + 2}},
        sp \in {{}, {WhatsappLimit - 19}, {WhatsappLimit}}}

\* str(n)
Digits == <<"0", "1", "2", "3", "4", "5", "6", "7", "8", "9">>
RECURSIVE Decimal(_)
Decimal(n) ==
    IF n < 10 THEN <<Digits[n + 1]>>
    ELSE Decimal(n \div 10) \o <<Digits[(n % 10) + 1]>>

\* f"({i}/{len(chunks)}) " if len(chunks) > 1 else ""
Label(i, n) ==
    IF n > 1 THEN <<"(">> \o Decimal(i) \o <<"/">> \o Decimal(n) \o <<")", " ">>
    ELSE <<>>

LongInit ==
    /\ table = {}
    /\ seq = 0
    /\ disk = {}
    /\ diskSeq = 0
    /\ now = 0
    /\ call = NoCall
    /\ issued = <<>>
    /\ fireCount = [i \in Ids |-> 0]
    /\ loop = "sleep"
    /\ due = <<>>
    /\ loopRet = Nothing
    /\ thr = "idle"
    /\ thrRet = Nothing
    /\ cycle = NoCycle
    /\ notified = [i \in Ids |-> 0]
    /\ pend = {}
    /\ faults = 0
    /\ nt = NoNotify
    /\ ps = NoParse
    /\ tx = NoText
    /\ rf = NoRefresh
    /\ \E c \in BOOLEAN : wa = [NoWa EXCEPT !.cfg = c]

\* send_whatsapp_long(message): not configured, return False; else
\* chunks = _split_message(message, limit=1500), run by SplitCall and SplitLoop
LongCall ==
    /\ wa.pc = "idle"
    /\ \E text \in LongTexts :
          wa' = IF wa.cfg
                THEN [wa EXCEPT !.pc = "call", !.text = text,
                                !.limit = WhatsappLimit]
                ELSE [wa EXCEPT !.pc = "returned", !.text = text,
                                !.ret = Bool(FALSE)]
    /\ UNCHANGED NotWa

\* The import and Client(...): an exception there goes to the outer except.
LongClient ==
    /\ wa.pc = "done"
    /\ \E ok \in BOOLEAN :
          wa' = IF ok
                THEN [wa EXCEPT !.pc = "send", !.client = "ok", !.all_ok = TRUE]
                ELSE [wa EXCEPT !.pc = "returned", !.client = "raised",
                                !.ret = Bool(FALSE)]
    /\ UNCHANGED NotWa

\* One iteration of the for loop: client.messages.create(body=...) inside its
\* own try, the sleep between parts, and after the last part return all_ok.
LongSendStopOnFail ==
    /\ wa.pc = "send"
    /\ LET i == Len(wa.log) + 1
           n == Len(wa.chunks)
       IN  \E o \in {"ok", "exception"} :
              wa' = [wa EXCEPT
                        !.log = Append(@, <<Label(i, n) \o wa.chunks[i], o>>),
                        !.all_ok = @ /\ (o = "ok"),
                        !.pc = IF i = n \/ o # "ok" THEN "returned" ELSE "send",
                        !.ret = IF i = n \/ o # "ok"
                                THEN Bool(wa.all_ok /\ o = "ok") ELSE NULL]
    /\ UNCHANGED NotWa
LongSend ==
    /\ wa.pc = "send"
    /\ LET i == Len(wa.log) + 1
           n == Len(wa.chunks)
       IN  \E o \in {"ok", "exception"} :
              wa' = [wa EXCEPT
                        !.log = Append(@, <<Label(i, n) \o wa.chunks[i], o>>),
                        !.all_ok = @ /\ (o = "ok"),
                        !.pc = IF i = n THEN "returned" ELSE "send",
                        !.ret = IF i = n THEN Bool(wa.all_ok /\ o = "ok")
                                ELSE NULL]
    /\ UNCHANGED NotWa

\* The caller has the result; the next call can start.
LongReturn ==
    /\ wa.pc = "returned"
    /\ wa' = [NoWa EXCEPT !.cfg = wa.cfg]
    /\ UNCHANGED NotWa

LongNext == LongCall \/ SplitCall \/ SplitLoop \/ LongClient \/ LongSend \/ LongReturn

LongSpec == LongInit /\ [][LongNext]_vars

----------------------------------------------------------------------------
\* Regular expressions as the re module matches them: a pattern is a tree of
\* nodes, and the matcher tries the alternatives in the order re tries them
\* (first alternative first, greedy repetition longest first, lazy repetition
\* shortest first), going back to the next one when the rest of the pattern
\* does not match.

\* No upper limit of a repetition (longer than any string of the model).
Many == 999

Lit(w) == <<"lit", w>>
OneOf(S) == <<"set", S>>
Dot == <<"any">>
Cat(nodes) == <<"cat", nodes>>
Alt(nodes) == <<"alt", nodes>>
Rep(node, min, max, greedy) == <<"rep", node, min, max, greedy>>
Grp(k, node) == <<"grp", k, node>>
Bos == <<"bos">>
Eos == <<"eos">>

Opt(node) == Rep(node, 0, 1, TRUE)
Star(node) == Rep(node, 0, Many, TRUE)
Plus(node) == Rep(node, 1, Many, TRUE)
LazyPlus(node) == Rep(node, 1, Many, FALSE)
Digit == OneOf(Range(Digits))
Space == OneOf(WhiteSpace)

\* A match: whether there is one, the position after it, where it starts (set
\* by a search), and for each of the
\* three groups <<start, end>> (the group is str[start..end-1]; <<0, 0>> for a
\* group that took no part).
NoCaps == <<<<0, 0>>, <<0, 0>>, <<0, 0>>>>
NoMatch == [ok |-> FALSE, pos |-> 0, caps |-> NoCaps, start |-> 0]

\* Equality of two characters, with re.IGNORECASE when ic.
SameChar(a, b, ic) == IF ic THEN LowerChar(a) = LowerChar(b) ELSE a = b

RECURSIVE LitAt(_, _, _, _)
LitAt(str, pos, w, ic) ==
    \/ w = <<>>
    \/ /\ pos <= Len(str)
       /\ SameChar(str[pos], Head(w), ic)
       /\ LitAt(str, pos + 1, Tail(w), ic)

\* Whether character ch matches the one-character node (a class or the dot).
CharOk(node, ch) == IF node[1] = "set" THEN ch \in node[2] ELSE ch # "\n"

\* How many characters from pos on match the one-character node, max at most.
RunLen(str, pos, node, max) ==
    LET bad == {q \in pos..Len(str) : ~CharOk(node, str[q])}
        end == IF bad = {} THEN Len(str) + 1
               ELSE CHOOSE q \in bad : \A b \in bad : q <= b
    IN  IF end - pos < max THEN end - pos ELSE max

\* Of the matches after[c], c the number of repetitions: the one with the most
\* repetitions if greedy, with the fewest otherwise.
BestCount(after, greedy) ==
    LET counts == {c \in DOMAIN after : after[c].ok}
    IN  IF counts = {} THEN NoMatch
        ELSE IF greedy THEN after[CHOOSE c \in counts : \A d \in counts : d <= c]
        ELSE after[CHOOSE c \in counts : \A d \in counts : c <= d]

\* Of the matches found[from], from the start: the leftmost.
Leftmost(found) ==
    LET starts == {from \in DOMAIN found : found[from].ok}
    IN  IF starts = {} THEN NoMatch
        ELSE LET first == CHOOSE from \in starts : \A g \in starts : from <= g
             IN  [found[first] EXCEPT !.start = first]

\* Match the nodes of todo one after the other from position pos; the first
\* way that works, in re's order of trying.
RECURSIVE MatchTodo(_, _, _, _, _)
RECURSIVE MatchAlts(_, _, _, _, _, _)
MatchAlts(str, ic, alts, todo, pos, caps) ==
    IF alts = <<>> THEN NoMatch
    ELSE LET r == MatchTodo(str, ic, <<Head(alts)>> \o todo, pos, caps)
         IN  IF r.ok THEN r ELSE MatchAlts(str, ic, Tail(alts), todo, pos, caps)
MatchTodo(str, ic, todo, pos, caps) ==
    IF todo = <<>> THEN [ok |-> TRUE, pos |-> pos, caps |-> caps, start |-> 0]
    ELSE
    LET n == Head(todo)
        rest == Tail(todo)
    IN  CASE n[1] = "lit" ->
                IF LitAt(str, pos, n[2], ic)
                THEN MatchTodo(str, ic, rest, pos + Len(n[2]), caps) ELSE NoMatch
          [] n[1] = "set" ->
                IF pos <= Len(str) /\ str[pos] \in n[2]
                THEN MatchTodo(str, ic, rest, pos + 1, caps) ELSE NoMatch
          [] n[1] = "any" ->
                IF pos <= Len(str) /\ str[pos] # "\n"
                THEN MatchTodo(str, ic, rest, pos + 1, caps) ELSE NoMatch
          [] n[1] = "bos" ->
                IF pos = 1 THEN MatchTodo(str, ic, rest, pos, caps) ELSE NoMatch
          [] n[1] = "eos" ->
                IF pos = Len(str) + 1
                THEN MatchTodo(str, ic, rest, pos, caps) ELSE NoMatch
          [] n[1] = "cat" -> MatchTodo(str, ic, n[2] \o rest, pos, caps)
          [] n[1] = "alt" -> MatchAlts(str, ic, n[2], rest, pos, caps)
          [] n[1] = "grp" ->
                MatchTodo(str, ic, <<<<"open", n[2]>>, n[3], <<"close", n[2]>>>> \o rest,
                          pos, caps)
          [] n[1] = "open" ->
                MatchTodo(str, ic, rest, pos, [caps EXCEPT ![n[2]] = <<pos, 0>>])
          [] n[1] = "close" ->
                MatchTodo(str, ic, rest, pos, [caps EXCEPT ![n[2]] = <<@[1], pos>>])
          [] n[1] = "rep" /\ n[2][1] \in {"set", "any"} ->
                \* a repeated single character: the counts after which the
                \* rest matches, the largest of them if greedy, else the least
                BestCount([c \in n[3]..RunLen(str, pos, n[2], n[4]) |->
                              MatchTodo(str, ic, rest, pos + c, caps)], n[5])
          [] n[1] = "rep" /\ n[2][1] \notin {"set", "any"} ->
                LET more == MatchTodo(str, ic,
                                <<n[2], Rep(n[2], IF n[3] > 0 THEN n[3] - 1 ELSE 0,
                                            n[4] - 1, n[5])>> \o rest, pos, caps)
                    stop == IF n[3] = 0 THEN MatchTodo(str, ic, rest, pos, caps)
                            ELSE NoMatch
                IN  IF n[4] = 0 THEN stop
                    ELSE IF n[5] THEN (IF more.ok THEN more ELSE stop)
                    ELSE (IF stop.ok THEN stop ELSE more)

\* pattern.match(str): at the start of str only.
ReMatch(pattern, str, ic) == MatchTodo(str, ic, <<pattern>>, 1, NoCaps)

\* pattern.search(str, from - 1): the match at the leftmost start that has
\* one, from position from on.
ReSearchFrom(pattern, str, ic, from) ==
    Leftmost([f \in from..(Len(str) + 1) |->
                 MatchTodo(str, ic, <<pattern>>, f, NoCaps)])
ReSearch(pattern, str, ic) == ReSearchFrom(pattern, str, ic, 1)

\* m.group(k): the captured text, or None.
HasGroup(m, k) == m.caps[k] # <<0, 0>>
Group(str, m, k) == SubSeq(str, m.caps[k][1], m.caps[k][2] - 1)

----------------------------------------------------------------------------
\* ParseSpec: parse_time_expression on compound-relative phrases, in a process
\* whose local time zone may change its UTC offset.

\* Largest amount per unit; how many half hours before and after the change
\* of offset the calls are made.
MaxAmount == 2
MaxSpan == 3

Hour == 60 * 60
Day == 24 * Hour

\* The instant the zone "spring" puts its clocks forward by an hour and the
\* zone "fall" puts them back; "fixed" never changes.
Transition == 3 * Day + Hour
Zones == {"fixed", "spring", "fall"}

\* time.localtime: seconds the local clock is ahead of UTC at instant u.
UtcOffset(zone, u) ==
    CASE zone = "fixed" -> Hour
      [] zone = "spring" -> IF u < Transition THEN Hour ELSE 2 * Hour
      [] zone = "fall" -> IF u < Transition THEN 2 * Hour ELSE Hour

\* A naive datetime is the number of seconds its wall-clock reading is after
\* 1970-01-01 00:00:00.  Local(zone, u) is the wall clock at instant u.
Local(zone, u) == u + UtcOffset(zone, u)

\* datetime.timestamp() of the naive datetime t with the given fold: the
\* instant whose wall clock reads t (with two of them the earlier one for
\* fold = 0 and the later one for fold = 1; with none, the reading moved
\* across the gap).
TimestampOf(zone, t, fold) ==
    LET a == Local(zone, t) - t
        u1 == t - a
        t1 == Local(zone, u1)
        probe == IF fold = 1 THEN u1 + Day ELSE u1 - Day
        b == IF t1 = t THEN Local(zone, probe) - probe ELSE t1 - u1
        u2 == t - b
        t2 == Local(zone, u2)
    IN  IF t1 = t /\ a = b THEN u1
        ELSE IF t2 = t THEN u2
        ELSE IF t1 = t THEN u1
        ELSE IF fold = 1 THEN (IF u1 < u2 THEN u1 ELSE u2)
        ELSE (IF u1 > u2 THEN u1 ELSE u2)

\* The same for fold = 0, which is what datetime arithmetic produces.
Timestamp(zone, t) == TimestampOf(zone, t, 0)

\* The fold of datetime.now() at instant u: 1 when the wall clock shows a
\* reading for the second time, after the clocks went back.
FoldOf(zone, u) ==
    LET result == Local(zone, u)
        trans == result - Local(zone, u - Day) - Day
    IN  IF trans < 0 /\ Local(zone, u + trans) = result THEN 1 ELSE 0

\* The words of the pattern, alternatives in the order the pattern tries them.
InWord == <<"i", "n">>
AndWord == <<"a", "n", "d">>
HourWords == <<<<"h", "o", "u", "r", "s">>, <<"h", "o", "u", "r">>,
               <<"h", "r", "s">>, <<"h", "r">>, <<"h">>>>
MinuteWords == <<<<"m", "i", "n", "u", "t", "e", "s">>,
                 <<"m", "i", "n", "u", "t", "e">>,
                 <<"m", "i", "n", "s">>, <<"m", "i", "n">>, <<"m">>>>
SecondWords == <<<<"s", "e", "c", "o", "n", "d", "s">>,
                 <<"s", "e", "c", "o", "n", "d">>,
                 <<"s", "e", "c", "s">>, <<"s", "e", "c">>, <<"s">>>>

\* Matching from position p (counted from 1) of str.
MatchAt(str, p, w) ==
    p + Len(w) - 1 <= Len(str) /\ SubSeq(str, p, p + Len(w) - 1) = w

\* \s* and \d+ : the position after the longest run.
RECURSIVE SkipSpace(_, _)
SkipSpace(str, p) ==
    IF p <= Len(str) /\ str[p] \in WhiteSpace THEN SkipSpace(str, p + 1) ELSE p
RECURSIVE SkipDigits(_, _)
SkipDigits(str, p) ==
    IF p <= Len(str) /\ str[p] \in Range(Digits) THEN SkipDigits(str, p + 1) ELSE p

\* (?:w1|w2|...): the position after the first alternative that matches, or 0.
AfterWord(str, p, words) ==
    LET K == {k \in 1..Len(words) : MatchAt(str, p, words[k])}
    IN  IF K = {} THEN 0
        ELSE p + Len(words[CHOOSE k \in K : \A j \in K : k <= j])

\* \s*(?:and\s*)?
AfterAnd(str, p) ==
    LET q == SkipSpace(str, p)
    IN  IF MatchAt(str, q, AndWord) THEN SkipSpace(str, q + Len(AndWord)) ELSE q

\* int() of a run of digits
RECURSIVE IntOf(_)
IntOf(digits) ==
    IF digits = <<>> THEN 0
    ELSE 10 * IntOf(SubSeq(digits, 1, Len(digits) - 1))
         + (CHOOSE d \in 0..9 : Digits[d + 1] = digits[Len(digits)])

\* (?:(\d+)\s*(?:words)<tail>)? at position p: whether the group took part in
\* the match, the digits it captured, the position after it.
NoGroup(p) == [ok |-> FALSE, digits |-> <<>>, next |-> p]
UnitGroup(str, p, words, withAnd) ==
    LET e == SkipDigits(str, p)
        w == AfterWord(str, SkipSpace(str, e), words)
    IN  IF e = p \/ w = 0 THEN NoGroup(p)
        ELSE [ok |-> TRUE, digits |-> SubSeq(str, p, e - 1),
              next |-> IF withAnd THEN AfterAnd(str, w) ELSE w]

\* re.match of the compound pattern: matched, and the three groups.
CompoundMatch(str) ==
    LET p0 == SkipSpace(str, Len(InWord) + 1)
        g1 == UnitGroup(str, p0, HourWords, TRUE)
        g2 == UnitGroup(str, g1.next, MinuteWords, TRUE)
        g3 == UnitGroup(str, g2.next, SecondWords, FALSE)
    IN  IF MatchAt(str, 1, InWord) /\ p0 > Len(InWord) + 1
        THEN [matched |-> TRUE, h |-> g1, m |-> g2, s |-> g3]
        ELSE [matched |-> FALSE, h |-> NoGroup(1), m |-> NoGroup(1), s |-> NoGroup(1)]

\* timedelta(hours=, minutes=, seconds=) in seconds
Timedelta(hours, minutes, seconds) == hours * Hour + minutes * 60 + seconds

\* The clock-time patterns.  (\d{1,2})(?:[: ](\d{2}))?\s*(am|pm)? is their
\* common end.
TomorrowWord == <<"t", "o", "m", "o", "r", "r", "o", "w">>
TodayWord == <<"t", "o", "d", "a", "y">>
AtWord == <<"a", "t">>
AmWord == <<"a", "m">>
PmWord == <<"p", "m">>
ClockRe ==
    Cat(<<Grp(1, Rep(Digit, 1, 2, TRUE)),
          Opt(Cat(<<OneOf({":", " "}), Grp(2, Rep(Digit, 2, 2, TRUE))>>)),
          Star(Space),
          Opt(Grp(3, Alt(<<Lit(AmWord), Lit(PmWord)>>)))>>)
TomorrowRe ==
    Cat(<<Lit(TomorrowWord), Plus(Space), Opt(Cat(<<Lit(AtWord), Plus(Space)>>)),
          ClockRe>>)
TodayRe ==
    Cat(<<Lit(TodayWord), Plus(Space), Opt(Cat(<<Lit(AtWord), Plus(Space)>>)),
          ClockRe>>)
\* The expression is stripped, so $ can only match at its end.
BareRe == Cat(<<Bos, ClockRe, Eos>>)

\* The hour after the am/pm adjustment, and the minute, of a clock match.
ClockHourPmOnly(expr, m) ==
    LET hour == IntOf(Group(expr, m, 1))
        ampm == IF HasGroup(m, 3) THEN Group(expr, m, 3) ELSE <<>>
    IN  IF ampm = PmWord /\ hour # 12 THEN hour + 12 ELSE hour
ClockHour(expr, m) ==
    LET hour == IntOf(Group(expr, m, 1))
        ampm == IF HasGroup(m, 3) THEN Group(expr, m, 3) ELSE <<>>
    IN  IF ampm = PmWord /\ hour # 12 THEN hour + 12
        ELSE IF ampm = AmWord /\ hour = 12 THEN 0
        ELSE hour
ClockMinute(expr, m) == IF HasGroup(m, 2) THEN IntOf(Group(expr, m, 2)) ELSE 0

\* datetime.replace(hour=, minute=, second=0, microsecond=0) raises ValueError
\* unless the hour is in 0..23 and the minute in 0..59.
ValidTime(hour, minute) == hour <= 23 /\ minute <= 59
Replace(t, hour, minute) == (t - (t % Day)) + hour * Hour + minute * 60

\* What parse_time_expression does: return a float, return None, or raise.
\* For a clock-time match the hour and minute it computed are kept.
Returned(family, hour, minute, value) ==
    [kind |-> "float", value |-> value, family |-> family,
     hour |-> hour, minute |-> minute]
ReturnedNone ==
    [kind |-> "None", value |-> 0, family |-> "none", hour |-> 0, minute |-> 0]
Raised(family, hour, minute) ==
    [kind |-> "raise", value |-> 0, family |-> family,
     hour |-> hour, minute |-> minute]

\* The three clock-time branches after their match m: tomorrow is the next
\* day's date at the time; today and a bare time are today's date at the time,
\* a day later when that is not after now.
ClockNoRoll(family, expr, m, zone, n) ==
    LET hour == ClockHour(expr, m)
        minute == ClockMinute(expr, m)
        current == Local(zone, n)
        target == Replace(IF family = "tomorrow" THEN current + Day ELSE current,
                          hour, minute)
    IN  IF ~ValidTime(hour, minute) THEN Raised(family, hour, minute)
        ELSE Returned(family, hour, minute,
                      TimestampOf(zone, target,
                                  IF family = "tomorrow" THEN 0 ELSE FoldOf(zone, n)))
Clock(family, expr, m, zone, n) ==
    LET hour == ClockHour(expr, m)
        minute == ClockMinute(expr, m)
        current == Local(zone, n)
        target == Replace(IF family = "tomorrow" THEN current + Day ELSE current,
                          hour, minute)
        rolled == family # "tomorrow" /\ target <= current
    IN  IF ~ValidTime(hour, minute) THEN Raised(family, hour, minute)
        ELSE Returned(family, hour, minute,
                      TimestampOf(zone, IF rolled THEN target + Day ELSE target,
                                  IF family = "tomorrow" \/ rolled THEN 0
                                  ELSE FoldOf(zone, n)))

\* The clock-time branches in the order the code tries them, on the matches
\* of the three patterns.
ClockFamilies(tomorrow, today, bare, expr, zone, n) ==
    IF tomorrow.ok THEN Clock("tomorrow", expr, tomorrow, zone, n)
    ELSE IF today.ok THEN Clock("today", expr, today, zone, n)
    ELSE IF bare.ok THEN Clock("bare", expr, bare, zone, n)
    ELSE ReturnedNone

\* The compound branch on the match c of the compound pattern: taken when a
\* group took part and the amounts are not all zero; otherwise the clock-time
\* branches decide.
CompoundOrClock(c, clock, zone, n) ==
    LET hours == IntOf(c.h.digits)
        minutes == IntOf(c.m.digits)
        seconds == IntOf(c.s.digits)
    IN  IF /\ c.matched
           /\ (c.h.ok \/ c.m.ok \/ c.s.ok)
           /\ (hours # 0 \/ minutes # 0 \/ seconds # 0)
        THEN Returned("compound", 0, 0,
                      Timestamp(zone,
                          Local(zone, n) + Timedelta(hours, minutes, seconds)))
        ELSE clock

\* The body of parse_time_expression on expr = expr.lower().strip().
ParseLowered(expr, zone, n) ==
    CompoundOrClock(CompoundMatch(expr),
                    ClockFamilies(ReMatch(TomorrowRe, expr, FALSE),
                                  ReMatch(TodayRe, expr, FALSE),
                                  ReMatch(BareRe, expr, FALSE), expr, zone, n),
                    zone, n)

\* parse_time_expression(expr) at instant n in the zone.
parse_time_expression(raw, zone, n) == ParseLowered(Lower(Strip(raw)), zone, n)

\* The phrases: "in", then for each unit present its amount and its word, in
\* the order hours, minutes, seconds.
Units == {"h", "m", "s"}
Earlier(u) == CASE u = "h" -> {} [] u = "m" -> {"h"} [] u = "s" -> {"h", "m"}
Styles == {"long", "short", "and"}
UnitWord(u, style) ==
    CASE style = "long" ->
            <<" ">> \o (CASE u = "h" -> HourWords[1] [] u = "m" -> MinuteWords[1]
                          [] u = "s" -> SecondWords[1])
      [] style = "short" ->
            (CASE u = "h" -> HourWords[5] [] u = "m" -> MinuteWords[5]
               [] u = "s" -> SecondWords[5])
      [] style = "and" ->
            <<" ">> \o (CASE u = "h" -> HourWords[2] [] u = "m" -> MinuteWords[2]
                          [] u = "s" -> SecondWords[2])
Part(u, present, amount, style) ==
    IF u \notin present THEN <<>>
    ELSE (IF style = "and" /\ present \cap Earlier(u) # {}
          THEN <<" ">> \o AndWord ELSE <<>>)
         \o <<" ">> \o Decimal(amount[u]) \o UnitWord(u, style)
Phrase(present, amount, style) ==
    (IF style = "and" THEN <<"I", "n">> ELSE InWord)
    \o Part("h", present, amount, style)
    \o Part("m", present, amount, style)
    \o Part("s", present, amount, style)
    \o (IF style = "and" THEN <<" ">> ELSE <<>>)

ServerIdle ==
    /\ table = {}
    /\ seq = 0
    /\ disk = {}
    /\ diskSeq = 0
    /\ call = NoCall
    /\ issued = <<>>
    /\ fireCount = [i \in Ids |-> 0]
    /\ loop = "sleep"
    /\ due = <<>>
    /\ loopRet = Nothing
    /\ thr = "idle"
    /\ thrRet = Nothing
    /\ cycle = NoCycle
    /\ notified = [i \in Ids |-> 0]
    /\ pend = {}
    /\ faults = 0

\* The clock-time phrases: "tomorrow" or "today" or nothing, an optional "at",
\* the hour, optional minutes after ":" or " ", an optional "am" or "pm" with
\* or without a space before it.
Families == {"tomorrow", "today", "bare"}
ClockHours == {1, 2, 3, 12, 13, 25}
ClockMinutes == {0, 30, 75}
TwoDigits(m) == IF m < 10 THEN <<"0">> \o Decimal(m) ELSE Decimal(m)
ClockPhrase(family, at, h, sep, m, gap, ampm) ==
    (CASE family = "tomorrow" -> TomorrowWord \o <<" ">>
       [] family = "today" -> TodayWord \o <<" ">>
       [] family = "bare" -> <<>>)
    \o (IF at THEN AtWord \o <<" ">> ELSE <<>>)
    \o Decimal(h)
    \o (IF sep = "" THEN <<>> ELSE <<sep>> \o TwoDigits(m))
    \o (IF gap THEN <<" ">> ELSE <<>>)
    \o ampm

\* Phrases with a day unit, which the docstring and the detector's patterns
\* list, and phrases of no family.
DayPhrases == {<<"i", "n", " ", "2", " ", "d", "a", "y", "s">>,
               <<"i", "n", " ", "2", "d">>,
               <<"i", "n", " ", "1", " ", "d", "a", "y">>}
OtherPhrases == {<<"t", "o", "m", "o", "r", "r", "o", "w">>, <<"7", ":", "5">>,
                 <<"s", "o", "o", "n">>}

ParseInit ==
    /\ ServerIdle
    /\ nt = NoNotify
    /\ wa = NoWa
    /\ tx = NoText
    /\ rf = NoRefresh
    /\ now \in {Transition + k * (Hour \div 2) : k \in (0 - MaxSpan)..MaxSpan}
    /\ \E zone \in Zones :
          \/ \E style \in Styles, present \in (SUBSET Units) \ {{}},
                amount \in [Units -> 0..MaxAmount] :
                /\ \A u \in Units : u \notin present => amount[u] = 0
                /\ \E u \in present : amount[u] # 0
                /\ ps = [NoParse EXCEPT !.pc = "call", !.zone = zone,
                                        !.present = present, !.amount = amount,
                                        !.expr = Phrase(present, amount, style)]
          \/ \E family \in Families, at \in BOOLEAN, h \in ClockHours,
                sep \in {"", ":", " "}, m \in ClockMinutes, gap \in BOOLEAN,
                ampm \in {<<>>, AmWord, PmWord} :
                /\ family = "bare" => ~at
                /\ sep = "" => m = 0
                /\ ampm = <<>> => ~gap
                /\ ps = [NoParse EXCEPT
                            !.pc = "call", !.zone = zone,
                            !.clock = [family |-> family, h |-> h,
                                       withMinute |-> sep # "", m |-> m,
                                       ampm |-> ampm],
                            !.expr = ClockPhrase(family, at, h, sep, m, gap, ampm)]
          \/ \E e \in DayPhrases \cup OtherPhrases :
                ps = [NoParse EXCEPT !.pc = "call", !.zone = zone, !.expr = e]

ParseCall ==
    /\ ps.pc = "call"
    /\ ps' = [ps EXCEPT !.pc = "returned",
                        !.ret = parse_time_expression(ps.expr, ps.zone, now)]
    /\ UNCHANGED NotPs

ParseNext == ParseCall

ParseSpec == ParseInit /\ [][ParseNext]_vars

----------------------------------------------------------------------------
\* DetectSpec: try_parse_user_reminder on the user's message and the chat
\* request that calls it.

TIME_UNIT ==
    Alt(<<Lit(<<"s">>),
          Lit(<<"s", "e", "c">>),
          Lit(<<"s", "e", "c", "s">>),
          Cat(<<Lit(<<"s", "e", "c", "o", "n", "d">>), Opt(Lit(<<"s">>))>>),
          Lit(<<"m">>),
          Lit(<<"m", "i", "n">>),
          Lit(<<"m", "i", "n", "s">>),
          Cat(<<Lit(<<"m", "i", "n", "u", "t", "e">>), Opt(Lit(<<"s">>))>>),
          Lit(<<"h">>),
          Lit(<<"h", "r">>),
          Lit(<<"h", "r", "s">>),
          Cat(<<Lit(<<"h", "o", "u", "r">>), Opt(Lit(<<"s">>))>>),
          Lit(<<"d">>),
          Cat(<<Lit(<<"d", "a", "y">>), Opt(Lit(<<"s">>))>>)>>)
REL_TIME ==
    Cat(<<Lit(<<"i", "n">>), Plus(Space), Plus(Digit), Star(Space), TIME_UNIT,
          Star(Cat(<<Star(Space), Opt(Cat(<<Lit(<<"a", "n", "d">>), Star(Space)>>)),
                     Plus(Digit), Star(Space), TIME_UNIT>>))>>)
AmPm == Alt(<<Lit(AmWord), Lit(PmWord)>>)
ClockDigits == Cat(<<Rep(Digit, 1, 2, TRUE),
                     Opt(Cat(<<OneOf({":", " "}), Rep(Digit, 2, 2, TRUE)>>)),
                     Star(Space)>>)
ABS_TIME == Cat(<<ClockDigits, AmPm>>)
\* _ABS_TIME followed by ?, which makes only its (?:am|pm) optional
ABS_TIME_OPT == Cat(<<ClockDigits, Opt(AmPm)>>)
OptAt == Opt(Cat(<<Lit(AtWord), Plus(Space)>>))
RemindMe == Cat(<<Lit(<<"r", "e", "m", "i", "n", "d">>), Plus(Space), Lit(<<"m", "e">>), Plus(Space)>>)
ToThatAbout == Alt(<<Lit(<<"t", "o">>), Lit(<<"t", "h", "a", "t">>), Lit(<<"a", "b", "o", "u", "t">>)>>)

\* remind\s+me\s+(<time>)\s+(?:to|that|about)\s+(.+)
TimeFirst(time) ==
    Cat(<<RemindMe, Grp(1, time), Plus(Space), ToThatAbout, Plus(Space),
          Grp(2, Plus(Dot))>>)
\* remind\s+me\s+(?:to|that|about)\s+(.+?)\s+(<time>)
TaskFirst(time) ==
    Cat(<<RemindMe, ToThatAbout, Plus(Space), Grp(1, LazyPlus(Dot)), Plus(Space),
          Grp(2, time)>>)

\* _REMINDER_PATTERNS[i - 1]
REMINDER_PATTERNS ==
    <<TimeFirst(REL_TIME),
      TaskFirst(REL_TIME),
      TimeFirst(Cat(<<OptAt, ABS_TIME>>)),
      TaskFirst(Cat(<<OptAt, ABS_TIME>>)),
      TimeFirst(Cat(<<Lit(TomorrowWord), Plus(Space), OptAt, ABS_TIME_OPT>>)),
      TaskFirst(Cat(<<Lit(TomorrowWord), Plus(Space), OptAt, ABS_TIME_OPT>>)),
      TimeFirst(Cat(<<Lit(TodayWord), Plus(Space), OptAt, ABS_TIME_OPT>>)),
      TaskFirst(Cat(<<Lit(TodayWord), Plus(Space), OptAt, ABS_TIME_OPT>>)),
      Cat(<<RemindMe, Grp(1, REL_TIME), Star(Space), Grp(2, Plus(Dot))>>)>>

\* re.sub(r'^at\s+', '', time_expr, flags=re.IGNORECASE)
StripAt(str) ==
    LET m == ReMatch(Cat(<<Lit(AtWord), Plus(Space)>>), str, TRUE)
    IN  IF m.ok THEN SubSeq(str, m.pos, Len(str)) ELSE str

\* message.rstrip('.,!?;: ')
Punctuation == {".", ",", "!", "?", ";", ":", " "}
RECURSIVE RStripPunctuation(_)
RStripPunctuation(str) ==
    IF str # <<>> /\ str[Len(str)] \in Punctuation
    THEN RStripPunctuation(SubSeq(str, 1, Len(str) - 1)) ELSE str

\* The loop of try_parse_user_reminder from pattern i on.
\* The pair a pattern's match m gives: the groups stripped, the time span from
\* the second group for the task-first patterns, a leading "at" removed from
\* the time span and trailing punctuation from the message.
PatternPair(text, i, m) ==
    LET g1 == Strip(Group(text, m, 1))
        g2 == Strip(Group(text, m, 2))
        taskFirst == i \in {2, 4, 6, 8}
    IN  [time |-> StripAt(IF taskFirst THEN g2 ELSE g1),
         message |-> RStripPunctuation(IF taskFirst THEN g1 ELSE g2)]

\* trigger_at = parse_time_expression(time_expr); if trigger_at: return
\* (time_expr, message).  An exception of the parse leaves the function; None
\* goes on to the patterns that are left, whose result is rest.
PairOrRest(pair, trigger_at, i, rest) ==
    IF trigger_at.kind = "raise"
    THEN [kind |-> "raise", time |-> pair.time, message |-> pair.message,
          index |-> i]
    ELSE IF trigger_at.kind = "float"
    THEN [kind |-> "pair", time |-> pair.time, message |-> pair.message,
          index |-> i]
    ELSE rest

ParsePair(pair, i, zone, n, rest) ==
    PairOrRest(pair, parse_time_expression(pair.time, zone, n), i, rest)

\* if m: the pair of the match is parsed; no match goes on to the patterns
\* that are left.
MatchOrRest(text, i, m, zone, n, rest) ==
    IF ~m.ok THEN rest
    ELSE ParsePair(PatternPair(text, i, m), i, zone, n, rest)

RECURSIVE TryPatterns(_, _, _, _)
TryPatterns(text, i, zone, n) ==
    IF i > Len(REMINDER_PATTERNS) THEN NoPair
    ELSE MatchOrRest(text, i, ReSearch(REMINDER_PATTERNS[i], text, TRUE), zone, n,
                     TryPatterns(text, i + 1, zone, n))

try_parse_user_reminder(user_message, zone, n) ==
    TryPatterns(Strip(user_message), 1, zone, n)

\* The user's messages: a lead, then the time span and the task in either
\* order with (?:to|that|about) before the task, or the time span and the task
\* with nothing between them; and messages that ask for no reminder.
Leads == {<<"r", "e", "m", "i", "n", "d", " ", "m", "e">>,
          <<"P", "l", "e", "a", "s", "e", " ", "R", "e", "m", "i", "n", "d", " ", " ", "m", "e">>}
Connectors == {<<"t", "o">>,
               <<"a", "b", "o", "u", "t">>}
TimeSpans == {<<"i", "n", " ", "5", " ", "m", "i", "n", "u", "t", "e", "s">>,
              <<"i", "n", " ", "2", " ", "d", "a", "y", "s">>,
              <<"a", "t", " ", "5", " ", "p", "m">>,
              <<"a", "t", " ", "1", "3", " ", "p", "m">>,
              <<"7", " ", "3", "5", " ", "P", "M">>,
              <<"9", ":", "5", "0">>,
              <<"t", "o", "m", "o", "r", "r", "o", "w", " ", "a", "t", " ", "5", " ", "p", "m">>,
              <<"t", "o", "m", "o", "r", "r", "o", "w", " ", "2", "5">>,
              <<"t", "o", "d", "a", "y", " ", "a", "t", " ", "3", " ", "p", "m">>}
Tasks == {<<"c", "a", "l", "l", " ", "m", "o", "m">>,
          <<"b", "u", "y", " ", "m", "i", "l", "k", ".">>,
          <<"g", "o", " ", "i", "n", " ", "5", " ", "m", "i", "n", "u", "t", "e", "s">>,
          <<"s", "a", "y", " ", "1", "3", " ", "p", "m">>}
Orders == {"time", "task", "plain"}
Message(lead, order, time, conn, task) ==
    CASE order = "time" -> lead \o <<" ">> \o time \o <<" ">> \o conn \o <<" ">> \o task
      [] order = "task" -> lead \o <<" ">> \o conn \o <<" ">> \o task \o <<" ">> \o time
      [] order = "plain" -> lead \o <<" ">> \o time \o <<" ">> \o task
OtherMessages == {<<"h", "e", "l", "l", "o">>,
                  <<"r", "e", "m", "i", "n", "d", " ", "m", "e", " ", "l", "a", "t", "e", "r">>}

\* The process runs in a zone without changes of offset.
DetectZone == "fixed"

DetectInit ==
    /\ ServerIdle
    /\ nt = NoNotify
    /\ wa = NoWa
    /\ ps = NoParse
    /\ rf = NoRefresh
    /\ now = Transition
    /\ \/ \E lead \in Leads, order \in Orders, time \in TimeSpans,
             conn \in Connectors, task \in Tasks :
             /\ order = "plain" => conn = <<"t", "o">>
             /\ tx = [NoText EXCEPT !.pc = "call", !.lead = lead, !.order = order,
                                    !.time = time, !.conn = conn, !.task = task,
                                    !.text = Message(lead, order, time, conn, task)]
       \/ \E text \in OtherMessages : tx = [NoText EXCEPT !.pc = "call", !.text = text]

\* _thursday_stream: reminder_result = try_parse_user_reminder(user_msg).  An
\* exception leaves the handler; None skips the block; a pair goes on to
\* trigger_at = parse_time_expression(time_expr).
AfterDetect(t, r) ==
    [t EXCEPT !.ret = r,
              !.pc = CASE r.kind = "raise" -> "raised"
                       [] r.kind = "None" -> "proceed"
                       [] r.kind = "pair" -> "add"]

ChatDetect ==
    /\ tx.pc = "call"
    /\ tx' = AfterDetect(tx, try_parse_user_reminder(tx.text, DetectZone, now))
    /\ UNCHANGED <<NotFn, nt, wa, ps, rf>>

\* ... if trigger_at: reminders.add_reminder(message, trigger_at, conv_id), the
\* INSERT and its commit; the INSERT may raise (sqlite3.OperationalError), and
\* nothing around the call catches it.
ChatAddReminder(trigger_at, id) ==
    IF trigger_at.kind = "float" /\ trigger_at.value # 0
    THEN \/ /\ table' = table \cup {InsertRow(id, tx.ret.message,
                                              trigger_at.value, "c1", now)}
            /\ seq' = id
            /\ disk' = table'
            /\ diskSeq' = id
            /\ issued' = Append(issued, id)
            /\ tx' = [tx EXCEPT !.pc = "set",
                                !.added = Append(@, [id |-> id,
                                                     message |-> tx.ret.message,
                                                     trigger_at |-> trigger_at.value])]
         \/ /\ tx' = [tx EXCEPT !.pc = "store_raised"]
            /\ UNCHANGED <<storeVars, issued>>
    ELSE /\ tx' = [tx EXCEPT !.pc = "proceed"]
         /\ UNCHANGED <<storeVars, issued>>

ChatReminder ==
    /\ tx.pc = "add"
    /\ ChatAddReminder(parse_time_expression(tx.ret.time, DetectZone, now),
                       NextId(table, seq))
    /\ UNCHANGED <<now, call, fireCount, procVars, histVars, nt, wa, ps, rf>>

\* send_reminder_set_notification(message, trigger_at), of the reminder just
\* added: True or False, no exception.
SetNotificationOfFirst(next) ==
    /\ \E ok \in BOOLEAN :
          LET r == tx.added[1]
          IN  tx' = [tx EXCEPT !.pc = next,
                               !.sets = Append(@, [message |-> r.message,
                                                   trigger_at |-> r.trigger_at,
                                                   ok |-> ok])]
    /\ UNCHANGED <<NotFn, nt, wa, ps, rf>>

SetNotification(next) ==
    /\ \E ok \in BOOLEAN :
          LET r == tx.added[Len(tx.added)]
          IN  tx' = [tx EXCEPT !.pc = next,
                               !.sets = Append(@, [message |-> r.message,
                                                   trigger_at |-> r.trigger_at,
                                                   ok |-> ok])]
    /\ UNCHANGED <<NotFn, nt, wa, ps, rf>>

ChatSetNotify ==
    /\ tx.pc = "set"
    /\ SetNotification("proceed")

\* The rest of _thursday_stream: the user's message is saved and the streaming
\* response with the model's reply is returned.
ChatProceed ==
    /\ tx.pc = "proceed"
    /\ tx' = [tx EXCEPT !.pc = "replied"]
    /\ UNCHANGED <<NotFn, nt, wa, ps, rf>>

DetectNext == ChatDetect \/ ChatReminder \/ ChatSetNotify \/ ChatProceed

DetectSpec == DetectInit /\ [][DetectNext]_vars

----------------------------------------------------------------------------
\* TagSpec: extract_reminder_tags and strip_reminder_tags on the model's reply.

\* Most tags in a reply.
MaxTags == 2

\* \[REMIND:\s*(.+?)\s*\|\s*(.+?)\s*\] with re.IGNORECASE
RemindTag == <<"[", "R", "E", "M", "I", "N", "D", ":">>
REMIND_TAG_RE ==
    Cat(<<Lit(RemindTag), Star(Space), Grp(1, LazyPlus(Dot)), Star(Space),
          Lit(<<"|">>), Star(Space), Grp(2, LazyPlus(Dot)), Star(Space),
          Lit(<<"]">>)>>)

\* REMIND_TAG_RE.finditer(text): the matches from left to right, each search
\* starting where the match before it ended.
RECURSIVE FindTags(_, _)
FindTags(text, from) ==
    LET m == ReSearchFrom(REMIND_TAG_RE, text, TRUE, from)
    IN  IF m.ok THEN <<m>> \o FindTags(text, m.pos) ELSE <<>>

\* (m.group(0), m.group(1).strip(), m.group(2).strip()) for each match
extract_reminder_tags(text) ==
    LET ms == FindTags(text, 1)
    IN  [i \in 1..Len(ms) |->
            <<SubSeq(text, ms[i].start, ms[i].pos - 1),
              Strip(Group(text, ms[i], 1)), Strip(Group(text, ms[i], 2))>>]

\* REMIND_TAG_RE.sub('', text): the text between the matches
RECURSIVE Between(_, _, _)
Between(text, ms, from) ==
    IF ms = <<>> THEN SubSeq(text, from, Len(text))
    ELSE SubSeq(text, from, ms[1].start - 1) \o Between(text, Tail(ms), ms[1].pos)
SubTags(text) == Between(text, FindTags(text, 1), 1)

strip_reminder_tagsNoStrip(text) == SubTags(text)
strip_reminder_tags(text) == Strip(SubTags(text))

\* The replies: plain pieces with tags between them, the tags of a reply all
\* written tightly or all with spaces and in the other case of letters; and replies with brackets that
\* do not pair up.
Pieces == {<<"o", "k">>, <<" ", "a", "\n", "b", " ">>}
TagTimes == {<<"i", "n", " ", "5", " ", "m", "i", "n", "u", "t", "e", "s">>}
TagMessages == {<<"c", "a", "l", "l", " ", "m", "o", "m">>, <<"a", "|", "b">>}
TagStyles == {"tight", "loose"}
TagText(style, time, message) ==
    IF style = "tight" THEN RemindTag \o time \o <<"|">> \o message \o <<"]">>
    ELSE <<"[", "R", "e", "m", "i", "n", "d", ":", " ", " ">> \o time \o <<" ", "|", " ", " ">> \o message \o <<" ", "]">>
RECURSIVE Reply(_, _)
Reply(pieces, tags) ==
    IF tags = <<>> THEN pieces[1]
    ELSE pieces[1] \o TagText(tags[1].style, tags[1].time, tags[1].message)
         \o Reply(Tail(pieces), Tail(tags))
OddReplies == {<<"[", "R", "E", "M", "[", "R", "E", "M", "I", "N", "D", ":", " ", "a", " ", "|", " ", "b", "]", "I", "N", "D", ":", " ", "c", " ", "|", " ", "d", "]">>,
               <<"[", "R", "E", "M", "I", "N", "D", ":", " ", "a", " ", "|", " ", "b">>,
               <<"[", "R", "E", "M", "I", "N", "D", ":", " ", "a", "\n", "b", " ", "|", " ", "c", "]">>}
TagsIn == [style : TagStyles, time : TagTimes, message : TagMessages]

TagInit ==
    /\ ServerIdle
    /\ nt = NoNotify
    /\ wa = NoWa
    /\ ps = NoParse
    /\ rf = NoRefresh
    /\ now = 0
    /\ \/ \E k \in 0..MaxTags :
             \E pieces \in [1..(k + 1) -> Pieces], tags \in [1..k -> TagsIn] :
                /\ \A i, j \in 1..k : tags[i].style = tags[j].style
                /\ tx = [NoText EXCEPT !.pc = "call", !.pieces = pieces, !.tagsIn = tags,
                                    !.text = Reply(pieces, tags)]
       \/ \E text \in OddReplies : tx = [NoText EXCEPT !.pc = "call", !.text = text]

\* generate(): _process_reminders(full_reply, conv_id) extracts the tags, then
\* clean_reply = strip_reminder_tags(full_reply)
TagCall ==
    /\ tx.pc = "call"
    /\ tx' = [tx EXCEPT !.pc = "stripped",
                        !.tags = extract_reminder_tags(tx.text),
                        !.clean = strip_reminder_tags(tx.text)]
    /\ UNCHANGED <<NotFn, nt, wa, ps, rf>>

\* strip_reminder_tags on the text it returned
TagAgain ==
    /\ tx.pc = "stripped"
    /\ tx' = [tx EXCEPT !.pc = "again", !.again = strip_reminder_tags(tx.clean)]
    /\ UNCHANGED <<NotFn, nt, wa, ps, rf>>

TagNext == TagCall \/ TagAgain

TagSpec == TagInit /\ [][TagNext]_vars

----------------------------------------------------------------------------
\* ChatSpec: one request through _thursday_stream, from the user's message to
\* the reply saved by generate().

\* The user's messages: one that asks for no reminder, one that asks for one.
ChatMessages ==
    {<<"h", "e", "l", "l", "o">>,
     <<"r", "e", "m", "i", "n", "d", " ", "m", "e", " ", "i", "n", " ", "9", " ",
       "m", "i", "n", "s", " ", "t", "o", " ", "b", "u", "y", " ", "m", "i", "l", "k">>}

\* The time phrases of the reply's tags: one that parses, one that matches no
\* pattern, one whose hour datetime.replace rejects.
ChatTagTimes == {<<"i", "n", " ", "5", " ", "m", "i", "n", "u", "t", "e", "s">>,
                 <<"s", "o", "o", "n">>,
                 <<"1", "3", " ", "p", "m">>}
ChatTagMessages == {<<"c", "a", "l", "l", " ", "m", "o", "m">>,
                    <<"n", "a", "p">>}
ChatTagsIn == [style : {"tight"}, time : ChatTagTimes, message : ChatTagMessages]
ChatPiece == <<"o", "k">>

\* The model's replies: empty, or text with up to MaxTags tags in it.
ChatReplies ==
    {<<>>} \cup
    UNION {{Reply([i \in 1..(k + 1) |-> ChatPiece], tags) : tags \in [1..k -> ChatTagsIn]} :
           k \in 0..MaxTags}

ChatInit ==
    /\ ServerIdle
    /\ nt = NoNotify
    /\ wa = NoWa
    /\ ps = NoParse
    /\ rf = NoRefresh
    /\ now = Transition
    /\ \E text \in ChatMessages, reply \in ChatReplies :
          tx = [NoText EXCEPT !.pc = "call", !.text = text, !.reply = reply]

\* generate(): for sse_line, tokens in llama.stream_chat_and_collect(...):
\* yield sse_line.  The tokens of the reply go to the client as they arrive.
ReplyStream ==
    /\ tx.pc = "replied"
    /\ tx' = [tx EXCEPT !.pc = "streamed", !.shown = tx.reply]
    /\ UNCHANGED <<NotFn, nt, wa, ps, rf>>

\* if full_reply: _process_reminders(full_reply, conv_id), whose first
\* statement is tags = extract_reminder_tags(full_reply).  An empty reply skips
\* the block.
ReplyExtract ==
    /\ tx.pc = "streamed"
    /\ tx' = IF tx.reply = <<>> THEN [tx EXCEPT !.pc = "done"]
             ELSE [tx EXCEPT !.pc = "tags", !.todo = extract_reminder_tags(tx.reply)]
    /\ UNCHANGED <<NotFn, nt, wa, ps, rf>>

\* One pass of the for loop of _process_reminders on the tag (full_match,
\* time_expr, message): an exception of parse_time_expression leaves
\* _process_reminders and generate(); None goes on to the next tag; a
\* timestamp is added with the tag's message, and the INSERT may raise.
ReplyAddReminder(trigger_at, id, tag) ==
    CASE trigger_at.kind = "raise" ->
            /\ tx' = [tx EXCEPT !.pc = "tag_raised"]
            /\ UNCHANGED <<storeVars, issued>>
      [] trigger_at.kind = "None" ->
            /\ tx' = [tx EXCEPT !.todo = Tail(@)]
            /\ UNCHANGED <<storeVars, issued>>
      [] trigger_at.kind = "float" ->
            \/ /\ table' = table \cup {InsertRow(id, tag[3], trigger_at.value,
                                                  "c1", now)}
               /\ seq' = id
               /\ disk' = table'
               /\ diskSeq' = id
               /\ issued' = Append(issued, id)
               /\ tx' = [tx EXCEPT !.pc = "tagset", !.todo = Tail(@),
                                   !.added = Append(@, [id |-> id,
                                                        message |-> tag[3],
                                                        trigger_at |-> trigger_at.value])]
            \/ /\ tx' = [tx EXCEPT !.pc = "store_raised"]
               /\ UNCHANGED <<storeVars, issued>>

ReplyTag ==
    /\ tx.pc = "tags"
    /\ tx.todo # <<>>
    /\ ReplyAddReminder(parse_time_expression(Head(tx.todo)[2], DetectZone, now),
                        NextId(table, seq), Head(tx.todo))
    /\ UNCHANGED <<now, call, fireCount, procVars, histVars, nt, wa, ps, rf>>

\* send_reminder_set_notification(message, trigger_at) in _process_reminders
ReplySetNotify ==
    /\ tx.pc = "tagset"
    /\ SetNotification("tags")

\* After the loop: clean_reply = strip_reminder_tags(full_reply);
\* memory.add_message("assistant", clean_reply, conv_id)
ReplySave ==
    /\ tx.pc = "tags"
    /\ tx.todo = <<>>
    /\ tx' = [tx EXCEPT !.pc = "saved", !.saved = strip_reminder_tags(tx.reply)]
    /\ UNCHANGED <<NotFn, nt, wa, ps, rf>>

ChatNext ==
    \/ ChatDetect
    \/ ChatReminder
    \/ ChatSetNotify
    \/ ChatProceed
    \/ ReplyStream
    \/ ReplyExtract
    \/ ReplyTag
    \/ ReplySetNotify
    \/ ReplySave

ChatSpec == ChatInit /\ [][ChatNext]_vars

----------------------------------------------------------------------------
\* RefreshSpec: calls of college.background_refresh, from any threads, and the
\* threads they start.  rf.pc[c] follows call c and then its thread:
\* "idle" (not made), "check" (the call has read _refreshing as false),
\* "skipped" (it has read true and returned), "started" (t.start() done, the
\* thread not yet in the lock), "locked" (the thread holds _refresh_lock),
\* "running" (_refreshing set, scraper.refresh running), "refreshed"
\* (refresh over or failed), "cleared" (_refreshing reset, lock still held),
\* "finished".

NotRf == <<NotFn, nt, wa, ps, tx>>

RefreshInit ==
    /\ ServerIdle
    /\ now = 0
    /\ FnIdle

\* The threads that have been started and have not finished.
Live == {"started", "locked", "running", "refreshed", "cleared"}
LiveThreads == {c \in Calls : rf.pc[c] \in Live}

\* if _refreshing: log, return
RefreshCheck(c) ==
    /\ rf.pc[c] = "idle"
    /\ rf' = [rf EXCEPT !.pc[c] = IF rf.refreshing THEN "skipped" ELSE "check"]
    /\ UNCHANGED NotRf

\* t = threading.Thread(target=_run, ...); t.start()
RefreshStart(c) ==
    /\ rf.pc[c] = "check"
    /\ rf' = [rf EXCEPT !.pc[c] = "started"]
    /\ UNCHANGED NotRf

\* _run: with _refresh_lock, which waits while another thread holds the lock
RunAcquire(c) ==
    /\ rf.pc[c] = "started"
    /\ rf.lock = 0
    /\ rf' = [rf EXCEPT !.pc[c] = "locked", !.lock = c]
    /\ UNCHANGED NotRf

\* _refreshing = True
RunSet(c) ==
    /\ rf.pc[c] = "locked"
    /\ rf' = [rf EXCEPT !.pc[c] = "running", !.refreshing = TRUE]
    /\ UNCHANGED NotRf

\* scraper.refresh(force=force) returns, or raises and the except logs it
RunRefresh(c) ==
    /\ rf.pc[c] = "running"
    /\ rf' = [rf EXCEPT !.pc[c] = "refreshed"]
    /\ UNCHANGED NotRf

\* finally: _refreshing = False
RunClear(c) ==
    /\ rf.pc[c] = "refreshed"
    /\ rf' = [rf EXCEPT !.pc[c] = "cleared", !.refreshing = FALSE]
    /\ UNCHANGED NotRf

\* the end of the with block releases the lock; the thread is over
RunRelease(c) ==
    /\ rf.pc[c] = "cleared"
    /\ rf' = [rf EXCEPT !.pc[c] = "finished", !.lock = 0]
    /\ UNCHANGED NotRf

RefreshNext ==
    \E c \in Calls :
        \/ RefreshCheck(c)
        \/ RefreshStart(c)
        \/ RunAcquire(c)
        \/ RunSet(c)
        \/ RunRefresh(c)
        \/ RunClear(c)
        \/ RunRelease(c)

RefreshSpec == RefreshInit /\ [][RefreshNext]_vars

----------------------------------------------------------------------------
\* The store's contract, checked under StoreSpec.

\* C1: get_due(now) returns exactly the stored reminders with trigger_at <= now
\* and fired = false: nothing fired, nothing deleted, nothing not yet due, each
\* due reminder once.
C1_GetDueExact ==
    call.op = "get_due" =>
        /\ \A i \in 1..Len(call.ret) :
              /\ call.ret[i] \in table
              /\ call.ret[i].fired = FALSE
              /\ call.ret[i].trigger_at <= call.arg
        /\ \A r \in table :
              (r.trigger_at <= call.arg /\ ~r.fired) => r \in Range(call.ret)
        /\ \A i, j \in 1..Len(call.ret) : i # j => call.ret[i].id # call.ret[j].id

C1_Witness ==
    /\ call.op = "get_due"
    /\ call.ret # <<>>
    /\ \E r \in table : r \notin Range(call.ret)

\* C2: over any sequence of store calls a reminder's fired flag never goes from
\* true back to false, and goes from false to true at most once.
C2_FiredMonotonic ==
    [][/\ \A r \in table : r.fired => \A q \in table' : q.id = r.id => q.fired
       /\ \A i \in Ids : fireCount'[i] <= 1]_vars

C2_Witness ==
    /\ call.op = "mark_fired"
    /\ Fired(call.pre, call.arg)
    /\ fireCount[call.arg] = 1

\* C8: mark_fired(id) on an already fired reminder leaves the store as it was,
\* with fired = true; on an id that is not stored it changes nothing and adds
\* no row; it returns None in both cases.
C8_MarkFiredIdempotent ==
    call.op = "mark_fired" =>
        /\ call.ret = "None"
        /\ Fired(call.pre, call.arg) => (table = call.pre /\ disk = call.pre)
        /\ call.arg \notin RowIds(call.pre) => (table = call.pre /\ disk = call.pre)
        /\ call.arg \in RowIds(call.pre) => Fired(table, call.arg)

C8_Witness ==
    /\ call.op = "mark_fired"
    /\ call.arg \notin RowIds(call.pre)
    /\ call.arg <= seq
    /\ \E r \in table : r.fired

\* C9: list_active returns exactly the stored reminders with fired = false, each
\* once, in ascending trigger_at order; called right after add(m, t) it holds
\* the new reminder with m and t, and right after mark_fired(id) or delete(id)
\* it does not hold id.
C9_ListActive ==
    [][call'.op = "list_active" =>
        LET s == call'.ret IN
        /\ \A r \in table' : ~r.fired =>
              \E i \in 1..Len(s) :
                  /\ s[i].id = r.id
                  /\ s[i].message = r.message
                  /\ s[i].trigger_at = r.trigger_at
                  /\ s[i].created_at = r.created_at
                  /\ s[i].conversation_id = r.conversation_id
        /\ \A i \in 1..Len(s) : \E r \in table' : r.id = s[i].id /\ ~r.fired
        /\ \A i, j \in 1..Len(s) : i < j =>
              (s[i].id # s[j].id /\ s[i].trigger_at <= s[j].trigger_at)
        /\ call.op = "add" =>
              \E i \in 1..Len(s) :
                  /\ s[i].id = call.ret.id
                  /\ s[i].message = call.arg[1]
                  /\ s[i].trigger_at = call.arg[2]
        /\ call.op \in {"mark_fired", "delete"} =>
              \A i \in 1..Len(s) : s[i].id # call.arg]_vars

C9_Witness ==
    /\ call.op = "list_active"
    /\ Len(call.ret) = 2
    /\ call.ret[1].trigger_at < call.ret[2].trigger_at
    /\ call.ret[1].id > call.ret[2].id

\* C10: every add returns a reminder with fired = false whose id is greater than
\* every id an earlier add returned, also after the reminder with the highest
\* id was deleted: no id is handed out twice.
C10_FreshIds ==
    /\ \A i, j \in 1..Len(issued) : i < j => issued[i] < issued[j]
    /\ call.op = "add" =>
          /\ call.ret.fired = FALSE
          /\ call.ret.id = issued[Len(issued)]
          /\ call.ret.id \notin RowIds(call.pre)
          /\ \E r \in table : r.id = call.ret.id /\ ~r.fired

C10_Witness ==
    /\ call.op = "add"
    /\ Len(issued) >= 2
    /\ issued[Len(issued) - 1] \notin RowIds(call.pre)

\* C12: delete(id) returns true exactly when a reminder with that id was stored
\* before the call, and then that reminder is gone and the others are as they
\* were; otherwise, also on a second delete of the same id, it returns false
\* and the store is as it was.
C12_Delete ==
    call.op = "delete" =>
        /\ call.ret = (\E r \in call.pre : r.id = call.arg)
        /\ call.ret = TRUE =>
              /\ call.arg \notin RowIds(table)
              /\ table = {r \in call.pre : r.id # call.arg}
        /\ call.ret = FALSE => table = call.pre
        /\ disk = table

C12_Witness ==
    /\ call.op = "delete"
    /\ call.ret = FALSE
    /\ call.arg \in Range(issued)
    /\ table # {}

\* C13: no store call changes the message, trigger_at, created_at or
\* conversation_id of a stored reminder; mark_fired(id) changes only the fired
\* flag of reminder id; add leaves the stored reminders as they were; a
\* reminder leaves the store only by delete of its id.
C13_Frame ==
    /\ \A r \in call.pre : \A q \in table : q.id = r.id =>
          /\ q.message = r.message
          /\ q.trigger_at = r.trigger_at
          /\ q.created_at = r.created_at
          /\ q.conversation_id = r.conversation_id
    /\ call.op = "mark_fired" =>
          /\ \A r \in call.pre : r.id # call.arg => r \in table
          /\ \A r \in call.pre : r.id = call.arg => [r EXCEPT !.fired = TRUE] \in table
          /\ Cardinality(table) = Cardinality(call.pre)
    /\ call.op = "add" => (call.pre \subseteq table /\ table \ call.pre = {call.ret})
    /\ call.op \in {"get_due", "list_active", "list_all"} => table = call.pre
    /\ \A i \in RowIds(call.pre) \ RowIds(table) : call.op = "delete" /\ call.arg = i

C13_Witness ==
    /\ call.op = "mark_fired"
    /\ Unfired(call.pre, call.arg)
    /\ \E r \in call.pre : r.id # call.arg /\ ~r.fired
    /\ Fired(table, call.arg)

\* C11 as stated: whatever limit N the caller wants, list_all returns the
\* min(N, number of stored reminders) reminders with the largest trigger_at.
C11_AsClaimed ==
    call.op = "list_all" =>
        \A N \in 1..(ListAllLimit + MaxOver) :
            Len(call.ret) = (IF N < Cardinality(call.pre)
                             THEN N ELSE Cardinality(call.pre))

\* C11: list_all takes no limit; it returns the min(50, number of stored
\* reminders) reminders with the largest trigger_at, each once, in descending
\* trigger_at order, fired and unfired alike.
C11_ListAll ==
    call.op = "list_all" =>
        LET s == call.ret
            n == IF Cardinality(call.pre) < ListAllLimit
                 THEN Cardinality(call.pre) ELSE ListAllLimit
        IN  /\ call.arg = <<>>
            /\ Len(s) = n
            /\ Range(s) \subseteq call.pre
            /\ Cardinality(Range(s)) = n
            /\ \A i, j \in 1..n : i < j => s[i].trigger_at >= s[j].trigger_at
            /\ \A r \in call.pre \ Range(s) :
                  \A i \in 1..n : r.trigger_at <= s[i].trigger_at
            /\ table = call.pre

C11_Witness ==
    /\ call.op = "list_all"
    /\ Cardinality(call.pre) > ListAllLimit
    /\ Len(call.ret) = ListAllLimit
    /\ \E i, j \in 1..Len(call.ret) : call.ret[i].fired /\ ~call.ret[j].fired
    /\ \E r \in call.pre \ Range(call.ret) :
          r.trigger_at = call.ret[Len(call.ret)].trigger_at

----------------------------------------------------------------------------
\* The poll loop's guarantees.

\* The calls one full cycle makes for the reminders get_due gave it.
RECURSIVE CycleCalls(_)
CycleCalls(rs) ==
    IF rs = <<>> THEN <<>>
    ELSE <<<<"notify", Head(rs).id>>, <<"mark", Head(rs).id>>>> \o CycleCalls(Tail(rs))

\* C3 (Spec: no crash, no store exception): whatever the interleaving of the
\* poll loop with the chat path's add, list and delete calls, the fire
\* notification is sent at most once per reminder id.
C3_FireAtMostOnce == \A i \in Ids : notified[i] <= 1

C3_Witness ==
    /\ \E i \in Ids : notified[i] = 1
    /\ loop = "mark"
    /\ thr = "commit"

C5_AsClaimed ==
    /\ loop = "boot" => \A p \in pend : Unfired(disk, p[1])
    /\ (loop = "done" /\ cycle.status = "ok") =>
          \A p \in pend : notified[p[1]] > p[2] /\ Fired(table, p[1])

\* C5 as amended: the same, of a reminder whose insert was committed before the
\* crash and that is still stored when that cycle runs (not deleted in between);
\* the notification is sent after the restart, by the end of that cycle.
C5_RedeliveredAfterCrash ==
    /\ loop = "boot" => \A p \in pend : Unfired(disk, p[1])
    /\ (loop = "done" /\ cycle.status = "ok") =>
          \A p \in pend :
              p[1] \in RowIds(table) => (notified[p[1]] > p[2] /\ Fired(table, p[1]))

C5_Witness ==
    /\ loop = "done"
    /\ cycle.status = "ok"
    /\ \E p \in pend : p[2] >= 1 /\ notified[p[1]] = p[2] + 1 /\ Fired(disk, p[1])

\* C6: also across crashes and restarts, a reminder that is fired has had a fire
\* notification attempted for it before.
C6_NoFireWithoutAttempt ==
    \A r \in table \cup disk : r.fired => notified[r.id] >= 1

C6_Witness ==
    /\ faults >= 1
    /\ \E r \in disk : r.fired /\ notified[r.id] >= 2

\* C7: no reminder is fired while its trigger_at is later than the current time.
C7_NeverFiresEarly ==
    \A r \in table \cup disk : r.fired => r.trigger_at <= now

C7_Witness ==
    /\ \E r \in disk : r.fired
    /\ \E r \in disk : ~r.fired /\ r.trigger_at > now

\* C14 as stated: when the webhook send of a fired reminder fails, the
\* scheduler's cycle also makes a send on the messaging-API channel, and every
\* reminder of the cycle ends with fired = true.  cycle.log holds every call the
\* cycle makes: <<"notify", id>> is the webhook send of
\* send_reminder_fire_notification, <<"mark", id>> is mark_fired.
C14_AsClaimed ==
    (loop = "done" /\ cycle.status = "ok" /\ cycle.sendFailed) =>
        /\ \E i \in 1..Len(cycle.log) : cycle.log[i][1] = "whatsapp"
        /\ \A i \in 1..Len(cycle.due) : ~Unfired(table, cycle.due[i].id)

----------------------------------------------------------------------------
\* The notifier's contract, checked under NotifySpec.

\* How often adapter a was called in this notify call, and whether one of the
\* calls made so far succeeded.
Attempts(a) == Cardinality({i \in 1..Len(nt.log) : nt.log[i][1] = a})
Delivered == \E i \in 1..Len(nt.log) : nt.log[i][2] = "ok"

\* C15: notify with the default channel (any channel but "all" and "whatsapp")
\* calls the primary adapter, send_discord, exactly once, and first; it calls
\* the secondary adapter, send_whatsapp, exactly once if that call failed and
\* not at all if it succeeded; it returns true iff one of the calls succeeded.
C15_DefaultFallback ==
    (nt.pc = "returned" /\ nt.channel \notin {ALL, WHATSAPP}) =>
        /\ nt.log[1][1] = "discord"
        /\ Attempts("discord") = 1
        /\ Attempts("whatsapp") = (IF nt.log[1][2] = "ok" THEN 0 ELSE 1)
        /\ Len(nt.log) = Attempts("discord") + Attempts("whatsapp")
        /\ nt.ret = Bool(Delivered)

C15_Witness ==
    /\ nt.pc = "returned"
    /\ nt.channel = DISCORD
    /\ nt.log = <<<<"discord", "status">>, <<"whatsapp", "ok">>>>
    /\ nt.ret = "True"

\* C16: notify with channel "all" calls send_discord once and then
\* send_whatsapp once, whatever send_discord returned, and returns true iff at
\* least one of the two succeeded.
C16_AllChannels ==
    (nt.pc = "returned" /\ nt.channel = ALL) =>
        /\ Len(nt.log) = 2
        /\ nt.log[1][1] = "discord"
        /\ nt.log[2][1] = "whatsapp"
        /\ nt.ret = Bool(Delivered)

C16_Witness ==
    /\ nt.pc = "returned"
    /\ nt.channel = ALL
    /\ nt.log = <<<<"discord", "ok">>, <<"whatsapp", "exception">>>>
    /\ nt.ret = "True"

\* C17: whatever the channel argument and whatever the adapters meet (channel
\* not configured, non-success status, exception inside the adapter), no
\* exception leaves notify, the value it returns is a boolean, and every call
\* that was started returns.
C17_NotifyReturns ==
    /\ [](nt.pc # "raised" /\ (nt.pc = "returned" => nt.ret \in {"True", "False"}))
    /\ (nt.pc \in {"first", "second"}) ~> (nt.pc = "returned")

C17_Witness ==
    /\ nt.pc = "returned"
    /\ nt.ret = "False"
    /\ \E i, j \in 1..Len(nt.log) :
          nt.log[i][2] = "exception" /\ nt.log[j][2] = "unconfigured"

\* C18: in every iteration on a remaining text longer than the limit, the new
\* part is the remaining text up to its last newline among the first `limit`
\* characters; without a newline there, up to the last space there; without
\* either, its first `limit` characters.  No part is longer than the limit.
C18_SplitCuts ==
    [][(wa.pc = "loop" /\ Len(wa.remaining) > wa.limit) =>
        LET rem == wa.remaining
            first == 1..wa.limit
            part == wa'.chunks[Len(wa'.chunks)]
            k == Len(part)
        IN  /\ Len(wa'.chunks) = Len(wa.chunks) + 1
            /\ k <= wa.limit
            /\ part = [i \in 1..k |-> rem[i]]
            /\ \/ /\ rem[k + 1] = "\n"
                  /\ \A i \in first : i > k + 1 => rem[i] # "\n"
               \/ /\ \A i \in first : rem[i] # "\n"
                  /\ rem[k + 1] = " "
                  /\ \A i \in first : i > k + 1 => rem[i] # " "
               \/ /\ \A i \in first : rem[i] \notin {"\n", " "}
                  /\ k = wa.limit
            /\ \A i \in 1..Len(wa'.chunks) : Len(wa'.chunks[i]) <= wa.limit]_vars

C18_Witness ==
    /\ wa.pc = "done"
    /\ wa.limit = 3
    /\ wa.text = <<"a", " ", "a", "\n", "a">>
    /\ wa.chunks = <<<<"a">>, <<" ", "a">>, <<"a">>>>

----------------------------------------------------------------------------
\* send_whatsapp_long, checked under LongSpec.

\* What a finished call must have done by the claim: one request per part, in
\* part order, part i of n > 1 sent as "(i/n) " followed by the part and a
\* single part sent as it is, later parts requested also after a failure, and
\* True returned exactly when no request failed.
AllPartsAttempted ==
    LET n == Len(wa.chunks) IN
    /\ n >= 1
    /\ Len(wa.log) = n
    /\ \A i \in 1..n :
          LET body == wa.log[i][1] IN
          IF n = 1 THEN body = wa.chunks[1]
          ELSE /\ Len(body) = Len(wa.chunks[i]) + 6
               /\ SubSeq(body, 1, 6) = <<"(", Digits[i + 1], "/", Digits[n + 1], ")", " ">>
               /\ SubSeq(body, 7, Len(body)) = wa.chunks[i]
    /\ wa.ret = Bool(\A i \in 1..n : wa.log[i][2] = "ok")

\* C19 as stated: every call of send_whatsapp_long attempts every part.
C19_AsClaimed == wa.pc = "returned" => AllPartsAttempted

\* C19: when the channel is configured and the client was created,
\* send_whatsapp_long attempts every part exactly once in part order, with the
\* "(i/n) " prefix when n > 1 and none when n = 1, goes on after a failed part,
\* and returns true iff no part failed; otherwise it attempts nothing and
\* returns false.
C19_LongSend ==
    wa.pc = "returned" =>
        IF wa.cfg /\ wa.client = "ok" THEN AllPartsAttempted
        ELSE wa.log = <<>> /\ wa.ret = "False"

C19_Witness ==
    /\ wa.pc = "returned"
    /\ Len(wa.chunks) = 3
    /\ Len(wa.log) = 3
    /\ wa.log[1][2] = "exception"
    /\ wa.log[3][2] = "ok"
    /\ wa.ret = "False"

----------------------------------------------------------------------------
\* The time parser, checked under ParseSpec.

\* C20 as stated: for a phrase "in X hours Y minutes Z seconds" with any of the
\* units present, in that order, and the amounts not all zero, parse returns
\* exactly now + X*3600 + Y*60 + Z.
C20_AsClaimed ==
    ps.pc = "returned" /\ ps.present # {} =>
        /\ ps.ret.kind = "float"
        /\ ps.ret.value =
              now + ps.amount["h"] * 3600 + ps.amount["m"] * 60 + ps.amount["s"]

\* What a call on a clock-time phrase was given: the hour the phrase means by
\* the am/pm rule, its minute, and whether the two make a time of day.
PhraseHour(c) ==
    IF c.ampm = PmWord /\ c.h # 12 THEN c.h + 12
    ELSE IF c.ampm = AmWord /\ c.h = 12 THEN 0
    ELSE c.h
PhraseMinute(c) == IF c.withMinute THEN c.m ELSE 0
ClockCall == ps.pc = "returned" /\ ps.clock.family # "none"

\* A wall-clock reading the zone never shows (the hour skipped when the clocks
\* go forward).
InGap(zone, t) == \A off \in {Hour, 2 * Hour} : Local(zone, t - off) # t

\* C21 as stated: a bare or "today" clock time returns today at that wall-clock
\* time when that is still ahead of now, and exactly 24 hours after that when
\* the time of day is at or before now.
C21_AsClaimed ==
    ClockCall /\ ps.clock.family \in {"today", "bare"} /\ ps.ret.kind = "float" =>
        LET current == Local(ps.zone, now)
            target == Replace(current, PhraseHour(ps.clock), PhraseMinute(ps.clock))
            today == TimestampOf(ps.zone, target, FoldOf(ps.zone, now))
        IN  ps.ret.value = IF target > current THEN today ELSE today + Day

\* C21: a bare or "today" clock time returns the instant at which the wall
\* clock reads today's date at that time when that reading is later than now's,
\* and the next day's date at that time otherwise (a reading the clock skips
\* is taken an hour later); that is 24 hours after today's whenever the UTC
\* offset is the same at both.
C21_ClockRoll ==
    ClockCall /\ ps.clock.family \in {"today", "bare"} /\ ps.ret.kind = "float" =>
        LET current == Local(ps.zone, now)
            target == Replace(current, PhraseHour(ps.clock), PhraseMinute(ps.clock))
            want == IF target > current THEN target ELSE target + Day
        IN  /\ Local(ps.zone, ps.ret.value) = IF InGap(ps.zone, want) THEN want + Hour
                                              ELSE want
            /\ ps.ret.value > now
            /\ ps.zone = "fixed" => ps.ret.value = want - Hour

C21_Witness ==
    /\ ClockCall
    /\ ps.clock.family = "bare"
    /\ ps.ret.kind = "float"
    /\ ps.zone = "fall"
    /\ Replace(Local(ps.zone, now), ps.ret.hour, ps.ret.minute) = Local(ps.zone, now)
    /\ ps.ret.value = now + Day + Hour

\* C22 as stated: a clock-time phrase whose hour after the am/pm rule is over
\* 23, or whose minutes are over 59, makes parse return None, and parse does
\* not raise.
C22_AsClaimed ==
    ClockCall /\ (PhraseHour(ps.clock) > 23 \/ PhraseMinute(ps.clock) > 59) =>
        ps.ret.kind = "None"

\* C24 as stated: every timestamp parse returns is strictly later than now.
C24_AsClaimed ==
    ps.pc = "returned" /\ ps.ret.kind = "float" => ps.ret.value > now

\* C25: for a clock-time phrase the hour used is H + 12 for pm with H not 12,
\* 12 for pm with H = 12, 0 for am with H = 12, H for am with H not 12 and H
\* without am or pm; omitted minutes are 0.
C25_AmPm ==
    ClockCall =>
        /\ ps.ret.kind \in {"float", "raise"}
        /\ ps.ret.hour = PhraseHour(ps.clock)
        /\ ps.ret.hour =
              (CASE ps.clock.ampm = PmWord /\ ps.clock.h # 12 -> ps.clock.h + 12
                 [] ps.clock.ampm = PmWord /\ ps.clock.h = 12 -> 12
                 [] ps.clock.ampm = AmWord /\ ps.clock.h = 12 -> 0
                 [] ps.clock.ampm = AmWord /\ ps.clock.h # 12 -> ps.clock.h
                 [] ps.clock.ampm = <<>> -> ps.clock.h)
        /\ ps.ret.minute = (IF ps.clock.withMinute THEN ps.clock.m ELSE 0)
        /\ ps.ret.kind = "float" =>
              Local(ps.zone, ps.ret.value) % Day \in
                  {ps.ret.hour * Hour + ps.ret.minute * 60 + gap : gap \in {0, Hour}}

C25_Witness ==
    /\ ClockCall
    /\ ps.clock.ampm = AmWord
    /\ ps.clock.h = 12
    /\ ~ps.clock.withMinute
    /\ ps.ret.kind = "float"
    /\ ps.ret.hour = 0
    /\ ps.ret.minute = 0

\* C26 as stated: "in N d" and "in N days" return now + N days.
C26_AsClaimed ==
    ps.pc = "returned" /\ ps.expr \in DayPhrases =>
        /\ ps.ret.kind = "float"
        /\ ps.ret.value \in {now + k * Day : k \in 1..2}

----------------------------------------------------------------------------
\* The detector and the chat request, checked under DetectSpec.

Detected == tx.pc \in {"raised", "proceed", "add"}

\* C23 as stated: on every user message the detector returns a pair or None
\* and never raises, and after a None the chat request goes on with no
\* reminder created.
C23_AsClaimed ==
    /\ tx.pc # "raised"
    /\ Detected => tx.ret.kind \in {"pair", "None"}
    /\ Detected /\ tx.ret.kind = "None" => tx.pc = "proceed" /\ table = {}

\* The patterns that match the text and whose time span parses.
MatchAndParse(text) ==
    {i \in 1..Len(REMINDER_PATTERNS) :
        LET m == ReSearch(REMINDER_PATTERNS[i], text, TRUE)
        IN  /\ m.ok
            /\ parse_time_expression(PatternPair(text, i, m).time,
                                     DetectZone, now).kind = "float"}

\* C27 as stated: the detector returns the pair of the first pattern in list
\* order that matches and whose time span parses, skipping patterns that match
\* with a time span that does not parse, and None only when there is no such
\* pattern.
C27_AsClaimed ==
    Detected =>
        LET text == Strip(tx.text)
            K == MatchAndParse(text)
            i == CHOOSE k \in K : \A j \in K : k <= j
            pair == PatternPair(text, i, ReSearch(REMINDER_PATTERNS[i], text, TRUE))
        IN  IF K = {} THEN tx.ret.kind = "None"
            ELSE tx.ret = [kind |-> "pair", time |-> pair.time,
                           message |-> pair.message, index |-> i]

\* C28 as stated: "remind me P to T" and "remind me to T P" are detected as
\* the same pair of P and T, for every task T and every time span P that
\* parses.
C28_AsClaimed ==
    /\ Detected
    /\ tx.order = "time"
    /\ parse_time_expression(StripAt(tx.time), DetectZone, now).kind = "float"
    =>  LET other == try_parse_user_reminder(
                         Message(tx.lead, "task", tx.time, tx.conn, tx.task),
                         DetectZone, now)
        IN  /\ tx.ret.kind = "pair"
            /\ other.kind = "pair"
            /\ other.time = tx.ret.time
            /\ other.message = tx.ret.message

----------------------------------------------------------------------------
\* The tag functions, checked under TagSpec.

\* The plain pieces of a reply one after the other: the reply without its tags.
RECURSIVE Join(_)
Join(pieces) == IF pieces = <<>> THEN <<>> ELSE pieces[1] \o Join(Tail(pieces))

Stripped == tx.pc \in {"stripped", "again"}
Built == tx.pieces # <<>>

\* C29 as stated: extract_reminder_tags returns the time phrase and the
\* message of each tag of the reply, in order; strip_reminder_tags returns the
\* reply with every tag removed and the text around the tags unchanged; and
\* stripping the stripped text again changes nothing.
C29_AsClaimed ==
    /\ Stripped /\ Built =>
          /\ Len(tx.tags) = Len(tx.tagsIn)
          /\ \A i \in 1..Len(tx.tags) :
                /\ tx.tags[i][2] = tx.tagsIn[i].time
                /\ tx.tags[i][3] = tx.tagsIn[i].message
          /\ tx.clean = Join(tx.pieces)
    /\ tx.pc = "again" => tx.again = tx.clean

\* C29: extract_reminder_tags returns, for each tag of the reply in order, the
\* tag's text, its time phrase and its message; strip_reminder_tags returns
\* the text around the tags with the whitespace at its two ends removed; and
\* stripping the stripped text again changes it exactly when removing the tags
\* has left a tag in it.
C29_Tags ==
    /\ Stripped /\ Built =>
          /\ Len(tx.tags) = Len(tx.tagsIn)
          /\ \A i \in 1..Len(tx.tags) :
                tx.tags[i] = <<TagText(tx.tagsIn[i].style, tx.tagsIn[i].time,
                                       tx.tagsIn[i].message),
                               tx.tagsIn[i].time, tx.tagsIn[i].message>>
          /\ tx.clean = Strip(Join(tx.pieces))
          /\ extract_reminder_tags(tx.clean) = <<>>
    /\ tx.pc = "again" =>
          (tx.again = tx.clean <=> extract_reminder_tags(tx.clean) = <<>>)

C29_Witness ==
    /\ tx.pc = "again"
    /\ Len(tx.tagsIn) = MaxTags
    /\ Len(tx.tags) = MaxTags
    /\ tx.tagsIn[1].style = "loose"
    /\ tx.clean # <<>>
    /\ tx.clean # Join(tx.pieces)
    /\ tx.again = tx.clean

----------------------------------------------------------------------------
\* The shared store under the server's interleavings, checked under Spec.

\* The row of table tbl with the id of row r, when there is one.
SameId(tbl, r) == {q \in tbl : q.id = r.id}

\* C30: whatever the interleaving of the chat path's adds and deletes with
\* the scheduler's get_due and mark_fired, a committed reminder leaves the
\* store only in a delete, which removes no other id, and keeps its columns
\* but fired; a fired reminder never becomes unfired, as the connection sees it
\* or as committed; and a row only ever appears with an id never used before,
\* so no step brings a deleted row back.
C30_NoLostWrite ==
    [][/\ \A r \in table :
             SameId(table', r) = {} => loop = "sleep" /\ loop' = "del_commit"
       /\ \A r \in disk :
             /\ SameId(disk', r) = {} => SameId(table', r) = {}
             /\ \A q \in SameId(disk', r) : [q EXCEPT !.fired = r.fired] = r
       /\ \A r1, r2 \in table :
             SameId(table', r1) = {} /\ SameId(table', r2) = {} => r1.id = r2.id
       /\ \A r \in table : r.fired => \A q \in SameId(table', r) : q.fired
       /\ \A r \in disk : r.fired => \A q \in SameId(disk', r) : q.fired
       /\ \A q \in table' : SameId(table, q) = {} => q.id > seq /\ ~q.fired]_vars

\* A worker thread's add has run its INSERT between the scheduler's mark_fired
\* statement and its commit.
C30_Witness ==
    /\ loop = "commit"
    /\ thr = "commit"
    /\ \E r \in table : r.fired /\ r.id # ReminderOf(thrRet).id /\ [r EXCEPT !.fired = FALSE] \in disk
    /\ \E r \in table : r.id = ReminderOf(thrRet).id /\ SameId(disk, r) = {}

\* C31: a poll cycle's get_due returns only rows that are committed: a row
\* whose INSERT has run and whose commit has not is never in its result.
C31_AsClaimed ==
    [][loop = "sleep" /\ loop' = "notify" => \A r \in Range(due') : r \in disk]_vars

\* The poll task has been cancelled, or is over.
Stopping == loop \in {"cancelled", "exited", "closed"}

LeftUnfired(i) ==
    /\ cycle.status = "error"
    /\ \E r \in DueRows(table, now) : r.id = i

\* A poll cycle's get_due has returned reminder i.
Polled(i) == cycle.status \in {"running", "ok"} /\ \E r \in Range(cycle.due) : r.id = i

\* C33: an exception of get_due or mark_fired in a poll cycle ends that cycle
\* and not the loop: the loop's next step is its sleep, and every reminder the
\* failed cycle leaves due and unfired is returned by the get_due of a later
\* cycle and marked fired, unless it leaves the store first.
C33_Retry ==
    /\ [][/\ cycle'.status = "error" /\ cycle.status # "error" => loop' = "done"
          /\ cycle.status = "error" /\ loop' # loop => loop' = "sleep"]_vars
    /\ \A i \in Ids : LeftUnfired(i) ~> (Polled(i) \/ ~Unfired(table, i))
    /\ \A i \in Ids : LeftUnfired(i) ~> ~Unfired(table, i)

\* mark_fired has raised on a reminder whose notification was sent: the cycle is
\* over with the reminder unfired.
C33_Witness ==
    \E i \in Ids : LeftUnfired(i) /\ notified[i] > 0 /\ cycle.log # <<>>

\* C33 as claimed: every reminder the failed cycle leaves unfired is marked
\* fired by a later cycle.
C33_AsClaimed == \A i \in Ids : LeftUnfired(i) ~> Fired(table, i)

\* C34: when add_reminder raises in the chat path, the request goes on without
\* the reminder: a step of the user-utterance block that creates no reminder
\* leads to the rest of the handler, and a step of the tag loop that creates
\* none and is not a parse error leads to the next tag.
C34_AsClaimed ==
    [][/\ tx.pc = "add" /\ tx'.pc # "set" => tx'.pc = "proceed"
       /\ tx.pc = "tags" /\ tx.todo # <<>> /\ tx'.pc \notin {"tagset", "tag_raised"}
             => tx'.pc = "tags"]_vars

\* C35: in the chat path every reminder created gets one 'set' notification,
\* sent after its add committed, with its message and trigger_at; nothing is
\* notified when nothing was created; whatever the notification returned, the
\* reminder is stored with fired = false.
Committed(a) ==
    \E r \in disk : /\ r.id = a.id
                    /\ r.message = a.message
                    /\ r.trigger_at = a.trigger_at
                    /\ ~r.fired
SetPending == tx.pc \in {"set", "tagset"}
C35_SetOnce ==
    /\ Len(tx.added) = Cardinality(table)
    /\ Len(tx.sets) = IF SetPending THEN Len(tx.added) - 1 ELSE Len(tx.added)
    /\ \A i \in 1..Len(tx.added) : Committed(tx.added[i])
    /\ \A i \in 1..Len(tx.sets) :
          /\ tx.sets[i].message = tx.added[i].message
          /\ tx.sets[i].trigger_at = tx.added[i].trigger_at
          /\ ~tx.sets[i].ok => Committed(tx.added[i])

\* A request that created a reminder from the user's message and two from
\* the reply's tags, with different messages, one notification having failed.
C35_Witness ==
    /\ tx.pc = "saved"
    /\ Len(tx.sets) = 3
    /\ tx.sets[2].message # tx.sets[3].message
    /\ ~tx.sets[2].ok
    /\ tx.sets[3].ok

\* C36: a tag of the reply whose time phrase does not parse adds nothing and
\* the loop goes on with the tags after it: a pass of the tag loop that adds
\* no reminder, the store not having failed, leaves the remaining tags to be
\* processed.
C36_AsClaimed ==
    [][tx.pc = "tags" /\ tx.todo # <<>> /\ tx'.pc \notin {"tagset", "store_raised"}
          => tx'.pc = "tags" /\ tx'.todo = Tail(tx.todo)]_vars

\* C37: every iteration of the loop of _split_message that does not end the
\* loop leaves a remaining text strictly shorter than the one it started with.
C37_AsClaimed ==
    [][wa.pc = "loop" /\ wa'.pc = "loop"
          => Len(wa'.remaining) < Len(wa.remaining)]_vars

\* C38: once delete(id) has found the row and returned true, the reminder is
\* gone for good: no fire notification is sent for id afterwards, whatever the
\* poll loop and the worker thread do, and get_due, list_active and list_all
\* do not return it.  Rows leave the table through DELETE only and ids are
\* not given twice, so the ids deleted are those given out and not in the table.
Deleted(i) == i <= seq /\ i \notin RowIds(table)
ReturnedIds(tbl, n) ==
    {r.id : r \in Range(GetDue(tbl, n))}
        \cup UNION {{d.id : d \in Range(s)} : s \in ListActive(tbl)}
        \cup UNION {{d.id : d \in Range(s)} : s \in ListAll(tbl)}
DeleteReturnsTrue ==
    loop = "sleep" /\ loop' = "del_commit" /\ loopRet' = ReturnsBool(TRUE)
C38_DeletedStaysGone ==
    [][/\ DeleteReturnsTrue => \E i \in Ids : ~Deleted(i) /\ Deleted(i)'
       /\ \A i \in Ids :
             Deleted(i) => /\ Deleted(i)'
                           /\ notified'[i] = notified[i]
                           /\ i \notin ReturnedIds(table', now')]_vars

\* A reminder was deleted, and a poll cycle after that is sending the fire
\* notification of a reminder added later.
C38_Witness ==
    /\ loop = "mark"
    /\ Deleted(1)
    /\ notified[1] = 0
    /\ Head(due).id = 2
    /\ notified[2] = 1

\* C39: while the poll loop runs, no reminder stays due and unfired: a cycle
\* starts with every reminder whose trigger_at has come and that is not fired,
\* a cycle that completes without an exception has marked every reminder it
\* started with, and every reminder that is due and unfired is later fired
\* unless it is deleted.
DueUnfired(i) == \E r \in table : r.id = i /\ r.trigger_at <= now /\ ~r.fired
CycleStarts == loop = "sleep" /\ loop' \in {"notify", "done"} /\ cycle'.status # "error"
CycleCompletes == cycle.status = "running" /\ cycle'.status = "ok"
C39_Fires ==
    /\ [][CycleStarts =>
            \A i \in Ids : DueUnfired(i) => \E r \in Range(cycle'.due) : r.id = i]_vars
    /\ [][CycleCompletes => \A r \in Range(cycle.due) : Fired(table', r.id)]_vars
    /\ \A i \in Ids : DueUnfired(i) ~> (Fired(table, i) \/ i \notin RowIds(table))

\* A cycle that failed at the first of two due reminders has been followed by
\* one that marked both.
C39_Witness ==
    /\ faults > 0
    /\ cycle.status = "ok"
    /\ Len(cycle.due) = 2
    /\ \A r \in Range(cycle.due) : Fired(table, r.id)

\* C40: a call of background_refresh made while a thread started by an earlier
\* call has not finished is skipped, and at most one refresh thread is started
\* or running at any time.
C40_AsClaimed ==
    /\ [][\A c \in Calls :
            rf.pc[c] = "idle" /\ rf'.pc[c] # "idle" /\ LiveThreads # {}
                => rf'.pc[c] = "skipped"]_vars
    /\ [](Cardinality(LiveThreads) <= 1)

============================================================================
